---- MODULE Spec2Model ----
(***************************************************************************)
(* Branch Integration Engine of tiramiss-repository-ops.                   *)
(*                                                                         *)
(* The programs apply-topics and bundle-topics drive a git repository.     *)
(* The repository (commit graph, refs, HEAD, index, in-progress operation) *)
(* is the state; every git invocation of the programs is computed on it.   *)
(***************************************************************************)
EXTENDS Integers, Sequences, FiniteSets, TLC

\* ------------------------------------------------------------------ bounds
MaxTopics == 3        \* longest topic list read from topics.txt
MaxRuns == 2          \* invocations of a program in one behaviour

\* ------------------------------------------------------------- repository
\* Paths of the tree, as path segments.
pA == <<"a">>
pB == <<"b">>
pT == <<".tiramiss", "x">>
Paths == {pA, pB, pT}

\* A tree maps every path to its content; 0 is "absent".
Tree(a, b, t) == (pA :> a) @@ (pB :> b) @@ (pT :> t)

Commit(ps, tr) == [parents |-> ps, tree |-> tr]

\* The commit graph the programs start from.  Commit ids are positions.
\*  1  upstream base (origin/develop-upstream)
\*  2  develop-working: 1 + vendored tool directory
\*  3,4 topic tA (two commits: a, then b); origin/tA is stale at 3
\*  5  topic tB, on origin (b, conflicts with tA's second commit); upstream/tB is at 3
\*  6  topic tC, only on upstream (a and the tool directory)
\*  7  topic tO, an unrelated root
\*  8  topic tZ, only on upstream: an empty commit on top of the base (no
\*     diff, not an ancestor of develop-working)
\*  9  topic tD, from develop-working: removes the tool directory
\*  10 topic tU, from develop-working: updates the tool directory
\*  11 an earlier integration result (a squashed on develop-working); no
\*     ref of the initial repository names it
\*  12 topic tV, from develop-working: a and an update of the tool directory
\*  tE is the base itself, tS is tA's first commit alone, tM exists nowhere.
InitCommits ==
  << Commit(<<>>, Tree(0, 0, 0)),
     Commit(<<1>>, Tree(0, 0, 1)),
     Commit(<<1>>, Tree(1, 0, 0)),
     Commit(<<3>>, Tree(1, 1, 0)),
     Commit(<<1>>, Tree(0, 2, 0)),
     Commit(<<1>>, Tree(2, 0, 2)),
     Commit(<<>>, Tree(0, 1, 0)),
     Commit(<<1>>, Tree(0, 0, 0)),
     Commit(<<2>>, Tree(0, 0, 0)),
     Commit(<<2>>, Tree(0, 0, 2)),
     Commit(<<2>>, Tree(1, 0, 1)),
     Commit(<<2>>, Tree(2, 0, 2)) >>

\* Names are sequences of path segments, so that `origin/${topic}` is a
\* concatenation.  Logical topic names that can stand in topics.txt.
TopicNames ==
  {<<"tA">>, <<"tB">>, <<"tC">>, <<"tO">>, <<"tZ">>, <<"tE">>, <<"tM">>, <<"tD">>, <<"tU">>,
   <<"tS">>, <<"tV">>}
BundleNames == {<<"bundle", "x">>, <<"bundle", "y">>}

\* The names topics.txt is drawn from.
ListedTopics == {<<"tA">>, <<"tB">>, <<"tZ">>, <<"tO">>, <<"tM">>}

INTEGRATE_BRANCH == <<"tiramiss">>
WORKING_BRANCH == <<"develop-working">>
BASE_REF == <<"origin", "develop-upstream">>

Heads(n) == <<"heads">> \o n
Remotes(n) == <<"remotes">> \o n
OriginOf(n) == <<"origin">> \o n
UpstreamOf(n) == <<"upstream">> \o n
Tags(n) == <<"tags">> \o n

\* Tags mirrored from upstream under refs/tags/upstream/.
TagNames == {<<"t1">>, <<"t2">>, <<"t3">>}

\* Every full ref name the model can hold (refs/heads/..., refs/remotes/...).
RefNames ==
  {Heads(n) : n \in TopicNames \cup BundleNames \cup {INTEGRATE_BRANCH, WORKING_BRANCH}}
  \cup {Remotes(OriginOf(n)) :
          n \in TopicNames \cup BundleNames \cup {INTEGRATE_BRANCH, <<"develop-upstream">>}}
  \cup {Remotes(UpstreamOf(n)) : n \in TopicNames}
  \cup {Tags(UpstreamOf(n)) : n \in TagNames}

NoCommit == 0

\* Refs of the initial repository; a ref at NoCommit does not exist.
InitRefs ==
  [r \in RefNames |->
     CASE r = Remotes(BASE_REF) -> 1
       [] r = Heads(WORKING_BRANCH) -> 2
       [] r = Heads(<<"tA">>) -> 4
       [] r = Remotes(<<"origin", "tA">>) -> 3
       [] r = Remotes(<<"origin", "tB">>) -> 5
       [] r = Remotes(<<"upstream", "tB">>) -> 3
       [] r = Remotes(<<"upstream", "tC">>) -> 6
       [] r = Heads(<<"tO">>) -> 7
       [] r = Remotes(<<"upstream", "tZ">>) -> 8
       [] r = Heads(<<"tE">>) -> 1
       [] r = Heads(<<"tD">>) -> 9
       [] r = Remotes(<<"origin", "tU">>) -> 10
       [] r = Heads(<<"tS">>) -> 3
       [] r = Heads(<<"tV">>) -> 12
       [] r = Heads(<<"bundle", "y">>) -> 5
       [] r = Tags(<<"upstream", "t1">>) -> 1
       [] r = Tags(<<"upstream", "t2">>) -> 5
       [] r = Remotes(<<"origin", "bundle", "y">>) -> 5
       [] OTHER -> NoCommit]

\* The repository: commit graph, refs, HEAD (a branch, or detached at a
\* commit), the index/working tree of tracked files, the unmerged paths, the
\* operation in progress (MERGE_HEAD / CHERRY_PICK_HEAD), the commit being
\* merged or picked while paths are unmerged, and whether the user has
\* uncommitted changes of their own.
InitRepo(dirty) ==
  [commits |-> InitCommits,
   refs |-> InitRefs,
   head |-> [branch |-> WORKING_BRANCH, at |-> NoCommit],
   index |-> InitCommits[2].tree,
   unmerged |-> {},
   op |-> "none",
   opHead |-> NoCommit,
   dirty |-> dirty]

\* The same repository with HEAD detached at its commit (a CI checkout).
Detached(r) ==
  [r EXCEPT !.head = [branch |-> <<>>,
                      at |-> IF r.head.branch # <<>> THEN r.refs[Heads(r.head.branch)]
                             ELSE r.head.at]]

\* The same repository after an earlier integration: the integration branch
\* exists and holds a commit of its own.
Integrated(r) == [r EXCEPT !.refs[Heads(INTEGRATE_BRANCH)] = 11]

\* The same repository after a fetch that moved the base reference on to
\* tS's commit (tS was merged upstream); develop-working is not rebuilt yet.
Advanced(r) == [r EXCEPT !.refs[Remotes(BASE_REF)] = 3]

\* The same repository where develop-working was rebuilt on the base with a
\* change of b of its own (the commit origin/tB also points to).
Reworked(r) ==
  [r EXCEPT !.refs[Heads(WORKING_BRANCH)] = 5, !.index = InitCommits[5].tree]

\* The same repository before develop-working was ever built: no such
\* branch, HEAD detached.
Unprepared(r) == [Detached(r) EXCEPT !.refs[Heads(WORKING_BRANCH)] = NoCommit]

\* ------------------------------------------------------ git: read commands
TreeOf(r, c) == r.commits[c].tree

HeadCommit(r) ==
  IF r.head.branch # <<>> THEN r.refs[Heads(r.head.branch)] ELSE r.head.at

RECURSIVE AncestorsIn(_, _)
AncestorsIn(cs, c) ==
  {c} \cup UNION {AncestorsIn(cs, cs[c].parents[i]) : i \in DOMAIN cs[c].parents}

Ancestors(r, c) == AncestorsIn(r.commits, c)

\* git rev-parse --verify <name>^{commit}: HEAD, then refs/heads, then
\* refs/remotes; NoCommit when the name resolves to nothing.
RevParse(r, name) ==
  IF name = <<"HEAD">> THEN HeadCommit(r)
  ELSE IF Heads(name) \in RefNames /\ r.refs[Heads(name)] # NoCommit
       THEN r.refs[Heads(name)]
  ELSE IF Remotes(name) \in RefNames /\ r.refs[Remotes(name)] # NoCommit
       THEN r.refs[Remotes(name)]
  ELSE NoCommit

\* git show-ref --verify refs/heads/<n> and refs/remotes/<n>
ShowRef(r, full) == full \in RefNames /\ r.refs[full] # NoCommit

\* git merge-base --is-ancestor a b (on commits)
IsAncestor(r, a, b) == a \in Ancestors(r, b)

\* git merge-base a b: a best common ancestor, NoCommit (exit 1) when the
\* histories are unrelated.  Ids grow with commit time; git prints the most
\* recent best common ancestor first.
MergeBases(r, a, b) ==
  LET ca == Ancestors(r, a) \cap Ancestors(r, b)
  IN {x \in ca : \A y \in ca \ {x} : x \notin Ancestors(r, y)}

MaxOf(S) == CHOOSE x \in S : \A y \in S : y <= x

GitMergeBase(r, a, b) ==
  IF MergeBases(r, a, b) = {} THEN NoCommit ELSE MaxOf(MergeBases(r, a, b))

\* The commits of a set, oldest first.
RECURSIVE SortedSeq(_)
SortedSeq(S) ==
  IF S = {} THEN <<>>
  ELSE LET m == CHOOSE x \in S : \A y \in S : x <= y
       IN <<m>> \o SortedSeq(S \ {m})

\* git rev-list --reverse --ancestry-path base..head
RevListAncestryPath(r, base, tip) ==
  SortedSeq({c \in Ancestors(r, tip) \ Ancestors(r, base) :
               base \in Ancestors(r, c)})

\* Mutant: the exit code tells whether b is already in a's history.
GitDiffQuietByAncestry(r, a, b) == IF IsAncestor(r, b, a) THEN 0 ELSE 1

\* git diff --quiet a..b: exit 0 when the trees are equal, 1 otherwise
GitDiffQuiet(r, a, b) == IF TreeOf(r, a) = TreeOf(r, b) THEN 0 ELSE 1

\* git status --porcelain is non-empty
StatusNonEmpty(r) ==
  r.dirty \/ r.unmerged # {} \/ r.index # TreeOf(r, HeadCommit(r))

\* ----------------------------------------------------- git: write commands
\* Every command yields the repository it leaves and its exit code.
Res(r, code) == [r |-> r, code |-> code]

\* Mutant: the merge result is the tree of the merged side.
MergedTreeTheirs(base, ours, theirs) == theirs

\* Three-way merge of trees, path by path: a side that did not change a path
\* takes the other side's content; both sides changing it differently is a
\* conflict on that path.
MergedTree(base, ours, theirs) ==
  [p \in Paths |-> IF ours[p] = base[p] THEN theirs[p] ELSE ours[p]]

ConflictPaths(base, ours, theirs) ==
  {p \in Paths : ours[p] # theirs[p] /\ ours[p] # base[p] /\ theirs[p] # base[p]}

\* Move the current branch (or the detached HEAD) to commit c.
AdvanceHead(r, c) ==
  IF r.head.branch # <<>>
  THEN [r EXCEPT !.refs[Heads(r.head.branch)] = c]
  ELSE [r EXCEPT !.head.at = c]

\* Append a commit and move HEAD to it; the index is the new commit's tree.
NewCommit(r, ps, tr) ==
  LET r1 == [r EXCEPT !.commits = Append(r.commits, Commit(ps, tr))]
  IN [AdvanceHead(r1, Len(r1.commits)) EXCEPT
        !.index = tr, !.unmerged = {}, !.op = "none", !.opHead = NoCommit]

\* Mutant: HEAD is moved to the topic when it is behind it (fast-forward).
GitMergeFastForward(r, t) ==
  LET h == HeadCommit(r)
      b == GitMergeBase(r, h, t)
      ours == TreeOf(r, h)
      theirs == TreeOf(r, t)
      cf == ConflictPaths(TreeOf(r, b), ours, theirs)
      m == MergedTree(TreeOf(r, b), ours, theirs)
  IN IF IsAncestor(r, t, h) THEN Res(r, 0)
     ELSE IF IsAncestor(r, h, t) THEN Res([AdvanceHead(r, t) EXCEPT !.index = theirs], 0)
     ELSE IF b = NoCommit THEN Res(r, 128)
     ELSE IF cf = {} THEN Res(NewCommit(r, <<h, t>>, m), 0)
     ELSE Res([r EXCEPT !.index = m, !.unmerged = cf,
                        !.op = "merge", !.opHead = t], 1)

\* git merge --no-ff [--no-edit] <t>
GitMergeNoFF(r, t) ==
  LET h == HeadCommit(r)
      b == GitMergeBase(r, h, t)
      ours == TreeOf(r, h)
      theirs == TreeOf(r, t)
      cf == ConflictPaths(TreeOf(r, b), ours, theirs)
      m == MergedTree(TreeOf(r, b), ours, theirs)
  IN IF IsAncestor(r, t, h) THEN Res(r, 0)             \* Already up to date
     ELSE IF b = NoCommit THEN Res(r, 128)              \* unrelated histories
     ELSE IF cf = {} THEN Res(NewCommit(r, <<h, t>>, m), 0)
     ELSE Res([r EXCEPT !.index = m, !.unmerged = cf,
                        !.op = "merge", !.opHead = t], 1)

\* Mutant: the squash merge records MERGE_HEAD like a plain merge.
GitMergeSquashRecording(r, t) ==
  LET h == HeadCommit(r)
      b == GitMergeBase(r, h, t)
      ours == TreeOf(r, h)
      theirs == TreeOf(r, t)
      cf == ConflictPaths(TreeOf(r, b), ours, theirs)
      m == MergedTree(TreeOf(r, b), ours, theirs)
  IN IF IsAncestor(r, t, h) THEN Res(r, 0)
     ELSE IF b = NoCommit THEN Res(r, 128)
     ELSE IF cf = {} THEN Res([r EXCEPT !.index = m, !.op = "merge", !.opHead = t], 0)
     ELSE Res([r EXCEPT !.index = m, !.unmerged = cf, !.opHead = t], 1)

\* git merge --squash --no-commit <t>: stages the merge result, records no
\* MERGE_HEAD and never moves HEAD.
GitMergeSquash(r, t) ==
  LET h == HeadCommit(r)
      b == GitMergeBase(r, h, t)
      ours == TreeOf(r, h)
      theirs == TreeOf(r, t)
      cf == ConflictPaths(TreeOf(r, b), ours, theirs)
      m == MergedTree(TreeOf(r, b), ours, theirs)
  IN IF IsAncestor(r, t, h) THEN Res(r, 0)
     ELSE IF b = NoCommit THEN Res(r, 128)
     ELSE IF cf = {} THEN Res([r EXCEPT !.index = m], 0)
     ELSE Res([r EXCEPT !.index = m, !.unmerged = cf, !.opHead = t], 1)

\* git commit [-m <message> | --no-edit]: fails with unmerged paths, and with
\* nothing to commit unless a merge is being concluded.
GitCommit(r) ==
  LET h == HeadCommit(r)
  IN IF r.unmerged # {} THEN Res(r, 128)
     ELSE IF r.op = "merge" THEN Res(NewCommit(r, <<h, r.opHead>>, r.index), 0)
     ELSE IF r.index = TreeOf(r, h) THEN Res(r, 1)
     ELSE Res(NewCommit(r, <<h>>, r.index), 0)

\* git cherry-pick -x <c>: replays c against HEAD with c's first parent as
\* the base; stops (CHERRY_PICK_HEAD kept) on a conflict and when the result
\* is empty; refuses a merge commit without -m.
GitCherryPick(r, c) ==
  LET h == HeadCommit(r)
      ps == r.commits[c].parents
      base == IF ps = <<>> THEN [p \in Paths |-> 0] ELSE TreeOf(r, ps[1])
      ours == TreeOf(r, h)
      theirs == TreeOf(r, c)
      cf == ConflictPaths(base, ours, theirs)
      m == MergedTree(base, ours, theirs)
  IN IF Len(ps) > 1 THEN Res(r, 128)
     ELSE IF cf # {} THEN Res([r EXCEPT !.index = m, !.unmerged = cf,
                                        !.op = "pick", !.opHead = c], 1)
     ELSE IF m = ours THEN Res([r EXCEPT !.op = "pick", !.opHead = c], 1)
     ELSE Res(NewCommit(r, <<h>>, m), 0)

\* git switch <branch>: refused while a merge or cherry-pick is in progress
\* and when the branch does not exist.
GitSwitch(r, n) ==
  IF r.op # "none" \/ ~ShowRef(r, Heads(n)) THEN Res(r, 128)
  ELSE Res([r EXCEPT !.head = [branch |-> n, at |-> NoCommit],
                     !.index = TreeOf(r, r.refs[Heads(n)])], 0)

\* git switch -C <branch> <c>: create or reset the branch at c and switch.
GitSwitchC(r, n, c) ==
  IF r.op # "none" \/ c = NoCommit THEN Res(r, 128)
  ELSE Res([r EXCEPT !.refs[Heads(n)] = c,
                     !.head = [branch |-> n, at |-> NoCommit],
                     !.index = TreeOf(r, c)], 0)

\* git switch --detach <c>
GitSwitchDetach(r, c) ==
  IF r.op # "none" \/ c = NoCommit THEN Res(r, 128)
  ELSE Res([r EXCEPT !.head = [branch |-> <<>>, at |-> c],
                     !.index = TreeOf(r, c)], 0)

\* git reset --hard <c>: HEAD's branch, index and working tree at c; any
\* operation in progress is dropped.
GitResetHard(r, c) ==
  IF c = NoCommit THEN Res(r, 128)
  ELSE Res([AdvanceHead(r, c) EXCEPT !.index = TreeOf(r, c), !.unmerged = {},
                                    !.op = "none", !.opHead = NoCommit], 0)

\* git push -u origin <n> / git push --force origin <n>: the remote branch
\* and its tracking ref refs/remotes/origin/<n> take the local branch's commit.
GitPush(r, n) ==
  IF ~ShowRef(r, Heads(n)) THEN Res(r, 1)
  ELSE Res([r EXCEPT !.refs[Remotes(OriginOf(n))] = r.refs[Heads(n)]], 0)

\* Mutant: the paths take the content of the merged side.
GitCheckoutTheirsAdd(r, ps) ==
  Res([r EXCEPT !.index = [p \in Paths |-> IF p \in ps
                                            THEN TreeOf(r, r.opHead)[p]
                                            ELSE r.index[p]],
                !.unmerged = r.unmerged \ ps], 0)

\* git checkout --ours -- <paths> followed by git add -- <paths>: the paths
\* take the content of HEAD's side and are no longer unmerged.
GitCheckoutOursAdd(r, ps) ==
  IF \E p \in ps : TreeOf(r, HeadCommit(r))[p] = 0
  THEN Res(r, 1)                       \* a path does not have our version
  ELSE
  Res([r EXCEPT !.index = [p \in Paths |-> IF p \in ps
                                            THEN TreeOf(r, HeadCommit(r))[p]
                                            ELSE r.index[p]],
                !.unmerged = r.unmerged \ ps], 0)

\* ------------------------------------------------------------ apply-topics
Modes == {"merge", "pick", "squash"}

\* Outcome of one topic: the repository left, the topic's state, the failure
\* that aborts the run ("" when none) and the mutating git commands started.
Out(r, st, fail, did) == [r |-> r, st |-> st, fail |-> fail, did |-> did]

\* resolveTopicRef: the topic itself, else origin/<topic>, else
\* upstream/<topic>; <<>> stands for the thrown error.
resolveTopicRef(r, topic) ==
  IF RevParse(r, topic) # NoCommit THEN topic
  ELSE IF RevParse(r, OriginOf(topic)) # NoCommit THEN OriginOf(topic)
  ELSE IF RevParse(r, UpstreamOf(topic)) # NoCommit THEN UpstreamOf(topic)
  ELSE <<>>

\* Mutant: the ancestry test is asked the wrong way round.
applyMergeSwapped(r, topic) ==
  LET t == RevParse(r, topic)
      m == GitMergeNoFF(r, t)
  IN IF IsAncestor(r, HeadCommit(r), t) THEN Out(r, "Skipped", "", {})
     ELSE IF m.code = 0 THEN Out(m.r, "Applied", "", {"merge"})
     ELSE IF m.r.op = "merge" THEN Out(m.r, "Conflict", "ApplyConflict", {"merge"})
     ELSE Out(m.r, "Pending", "CommonAncestorUnavailable", {"merge"})

applyMerge(r, topic) ==
  LET t == RevParse(r, topic)
      m == GitMergeNoFF(r, t)
  IN IF IsAncestor(r, t, HeadCommit(r)) THEN Out(r, "Skipped", "", {})
     ELSE IF m.code = 0 THEN Out(m.r, "Applied", "", {"merge"})
     ELSE IF m.r.op = "merge" THEN Out(m.r, "Conflict", "ApplyConflict", {"merge"})
     ELSE Out(m.r, "Pending", "CommonAncestorUnavailable", {"merge"})

\* Mutant: the commits are picked newest first.
RECURSIVE PickAllNewestFirst(_, _, _)
PickAllNewestFirst(r, cs, k) ==
  IF k > Len(cs) THEN Res(r, 0)
  ELSE LET c == GitCherryPick(r, cs[Len(cs) + 1 - k])
       IN IF c.code # 0 THEN c ELSE PickAllNewestFirst(c.r, cs, k + 1)

\* The cherry-pick loop of applyPick: stops at the first failing commit.
RECURSIVE PickAll(_, _, _)
PickAll(r, cs, k) ==
  IF k > Len(cs) THEN Res(r, 0)
  ELSE LET c == GitCherryPick(r, cs[k])
       IN IF c.code # 0 THEN c ELSE PickAll(c.r, cs, k + 1)

\* Mutant: a topic whose first commit is already applied is skipped.
applyPickSkippingApplied(r, topic, baseRef) ==
  LET t == RevParse(r, topic)
      base == GitMergeBase(r, t, RevParse(r, baseRef))
      commits == RevListAncestryPath(r, base, t)
      picked == PickAll(r, commits, 1)
  IN IF IsAncestor(r, t, HeadCommit(r)) THEN Out(r, "Skipped", "", {})
     ELSE IF RevParse(r, baseRef) = NoCommit \/ base = NoCommit
          THEN Out(r, "Pending", "CommonAncestorUnavailable", {})
     ELSE IF commits = <<>> THEN Out(r, "Applied", "", {})
     ELSE IF GitCherryPick(r, commits[1]).code # 0
             /\ GitCherryPick(r, commits[1]).r.unmerged = {}
          THEN Out(r, "Skipped", "", {})
     ELSE IF picked.code = 0 THEN Out(picked.r, "Applied", "", {"cherry-pick"})
     ELSE Out(picked.r, "Conflict", "ApplyConflict", {"cherry-pick"})

applyPick(r, topic, baseRef) ==
  LET t == RevParse(r, topic)
      base == GitMergeBase(r, t, RevParse(r, baseRef))
      commits == RevListAncestryPath(r, base, t)
      picked == PickAll(r, commits, 1)
  IN IF IsAncestor(r, t, HeadCommit(r)) THEN Out(r, "Skipped", "", {})
     ELSE IF RevParse(r, baseRef) = NoCommit \/ base = NoCommit
          THEN Out(r, "Pending", "CommonAncestorUnavailable", {})
     ELSE IF commits = <<>> THEN Out(r, "Applied", "", {})
     ELSE IF picked.code = 0 THEN Out(picked.r, "Applied", "", {"cherry-pick"})
     ELSE Out(picked.r, "Conflict", "ApplyConflict", {"cherry-pick"})

\* Mutant: a conflicting squash merge is rolled back before the error.
applySquashRollback(r, topic) ==
  LET t == RevParse(r, topic)
      head == HeadCommit(r)
      common == GitMergeBase(r, head, t)
      mergeResult == GitMergeSquash(r, t)
      committed == GitCommit(mergeResult.r)
  IN IF common = NoCommit THEN Out(r, "Pending", "CommonAncestorUnavailable", {})
     ELSE IF GitDiffQuiet(r, common, t) = 0 THEN Out(r, "Skipped", "", {})
     ELSE IF mergeResult.code # 0
          THEN Out(GitResetHard(mergeResult.r, head).r, "Conflict", "ApplyConflict",
                   {"merge", "reset"})
     ELSE IF committed.code # 0
          THEN Out(committed.r, "Pending", "CommitFailed", {"merge", "commit"})
     ELSE Out(committed.r, "Applied", "", {"merge", "commit"})

\* Between the squash merge and the commit, applySquash only reads the
\* history and the configuration to build the message.
applySquash(r, topic) ==
  LET t == RevParse(r, topic)
      head == HeadCommit(r)
      common == GitMergeBase(r, head, t)
      mergeResult == GitMergeSquash(r, t)
      committed == GitCommit(mergeResult.r)
  IN IF common = NoCommit THEN Out(r, "Pending", "CommonAncestorUnavailable", {})
     ELSE IF GitDiffQuiet(r, common, t) = 0 THEN Out(r, "Skipped", "", {})
     ELSE IF mergeResult.code # 0
          THEN Out(mergeResult.r, "Conflict", "ApplyConflict", {"merge"})
     ELSE IF committed.code # 0
          THEN Out(committed.r, "Pending", "CommitFailed", {"merge", "commit"})
     ELSE Out(committed.r, "Applied", "", {"merge", "commit"})

\* ------------------------------------------------- texts and their bytes
\* A text is a sequence of pieces; a piece is n characters of w bytes each in
\* UTF-8, s telling which characters (the ASCII text itself, or the
\* character that is repeated).  Texts never hold an empty piece.
Piece(s, w, n) == [s |-> s, w |-> w, n |-> n]

Lit(s) == <<Piece(s, 1, Len(s))>>

NL(k) == <<Piece("\n", 1, k)>>

\* Concatenation: neighbouring ASCII pieces that hold no line break become
\* one piece, and so do neighbouring repetitions of the same character, so
\* that equal texts are equal sequences.
Cat(a, b) ==
  IF a = <<>> THEN b
  ELSE IF b = <<>> THEN a
  ELSE LET p == a[Len(a)]
           q == b[1]
       IN IF p.w = 1 /\ q.w = 1 /\ p.s # "\n" /\ q.s # "\n"
          THEN SubSeq(a, 1, Len(a) - 1) \o <<Piece(p.s \o q.s, 1, p.n + q.n)>> \o Tail(b)
          ELSE IF p.s = q.s /\ p.w = q.w
          THEN SubSeq(a, 1, Len(a) - 1) \o <<Piece(p.s, p.w, p.n + q.n)>> \o Tail(b)
          ELSE a \o b

\* The concatenation of the texts of a list.
RECURSIVE Concat(_)
Concat(ts) ==
  IF ts = <<>> THEN <<>> ELSE Cat(ts[1], Concat(Tail(ts)))

\* U+FFFD, what decoding puts in place of an incomplete UTF-8 sequence.
Replacement == Piece("U+FFFD", 3, 1)

\* Buffer.byteLength(text, "utf8")
RECURSIVE ByteLength(_)
ByteLength(t) ==
  IF t = <<>> THEN 0 ELSE Head(t).w * Head(t).n + ByteLength(Tail(t))

\* The text decoded from the first k bytes (k >= 0) of the text's bytes: a
\* character cut in the middle decodes to one replacement character.
RECURSIVE DecodeBytes(_, _)
DecodeBytes(t, k) ==
  IF t = <<>> \/ k = 0 THEN <<>>
  ELSE LET p == Head(t)
       IN IF p.w * p.n <= k
          THEN <<p>> \o DecodeBytes(Tail(t), k - p.w * p.n)
          ELSE (IF k \div p.w > 0 THEN <<Piece(p.s, p.w, k \div p.w)>> ELSE <<>>)
               \o (IF k % p.w > 0 THEN <<Replacement>> ELSE <<>>)

\* Buffer.from(text, "utf8").slice(0, end).toString("utf8"): a negative end
\* counts from the end of the buffer.
BufferSliceToString(t, end) ==
  LET len == ByteLength(t)
      e == IF end < 0 THEN (IF len + end < 0 THEN 0 ELSE len + end)
           ELSE IF end > len THEN len ELSE end
  IN DecodeBytes(t, e)

IsSpace(p) == p.s \in {"\n", " "}

\* String.prototype.trim
RECURSIVE TrimStart(_)
TrimStart(t) ==
  IF t # <<>> /\ IsSpace(Head(t)) THEN TrimStart(Tail(t)) ELSE t

RECURSIVE TrimEnd(_)
TrimEnd(t) ==
  IF t # <<>> /\ IsSpace(t[Len(t)]) THEN TrimEnd(SubSeq(t, 1, Len(t) - 1)) ELSE t

Trim(t) == TrimEnd(TrimStart(t))

\* Array.prototype.join
RECURSIVE Join(_, _)
Join(ts, sep) ==
  IF ts = <<>> THEN <<>>
  ELSE IF Len(ts) = 1 THEN ts[1]
  ELSE Cat(ts[1], Cat(sep, Join(Tail(ts), sep)))

\* Mutant: every element is kept.
DistinctKeepingAll(xs) == xs

\* The elements of a sequence in order of first appearance: [...new Set(xs)]
RECURSIVE Distinct(_)
Distinct(xs) ==
  IF xs = <<>> THEN <<>>
  ELSE LET front == Distinct(SubSeq(xs, 1, Len(xs) - 1))
           x == xs[Len(xs)]
       IN IF \E k \in DOMAIN front : front[k] = x THEN front ELSE Append(front, x)

\* A ref name written with "/" between its segments.
RECURSIVE NameText(_)
NameText(name) ==
  IF name = <<>> THEN <<>>
  ELSE IF Len(name) = 1 THEN Lit(name[1])
  ELSE Cat(Lit(name[1] \o "/"), NameText(Tail(name)))

\* ------------------------------------------- apply-topics: squash message
GIT_MAX_COMMIT_MESSAGE_LENGTH == 65536

\* A commit as git stores it for the message: author name, author e-mail
\* and the lines of the commit message.
Record(an, ae, lines) == [an |-> an, ae |-> ae, message |-> lines]

\* git show -s --format=%an%n%ae%n%B <c>, split at "\n": the first three
\* fields are kept, so body is the first line of the commit message.
ShowRecord(rec) ==
  LET fields == <<rec.an, rec.ae>> \o rec.message
  IN [authorName |-> fields[1],
      authorEmail |-> fields[2],
      body |-> IF Len(fields) >= 3 THEN fields[3] ELSE <<>>]

Identity(name, email) == Concat(<<name, Lit(" <"), email, Lit(">")>>)

BotIdentity == Lit("Tiramiss <tiramiss@users.noreply.github.com>")

\* The message applySquash builds from the shown commits.
squashMessage(topic, commits, headAuthor) ==
  LET authors == [k \in DOMAIN commits |->
                    Identity(commits[k].authorName, commits[k].authorEmail)]
      kept == SelectSeq(authors,
                LAMBDA a : a # Identity(headAuthor.name, headAuthor.email)
                           /\ a # BotIdentity)
      unique == Distinct(kept)
      coAuthors == [k \in DOMAIN unique |-> Cat(Lit("Co-authored-by: "), unique[k])]
      body == Trim(Join([k \in DOMAIN commits |-> commits[k].body],
                        Concat(<<NL(2), Lit("---"), NL(2)>>)))
      title == Cat(Lit("squash: "), NameText(topic))
      footer == Concat(<<Lit("Squashed from '"), NameText(topic), Lit("'")>>)
      coAuthorsText == Join(coAuthors, NL(1))
      message == Concat(<<title, NL(2), body, NL(2), footer,
                          IF Len(coAuthors) > 0 THEN Cat(NL(2), coAuthorsText)
                          ELSE <<>> >>)
      fixedParts == Concat(<<title, NL(4), footer, NL(2), coAuthorsText>>)
      fixedPartsLength == ByteLength(fixedParts)
      availableBodyLength == GIT_MAX_COMMIT_MESSAGE_LENGTH - fixedPartsLength
      truncatedBody == BufferSliceToString(body, availableBodyLength)
  IN IF ByteLength(message) > GIT_MAX_COMMIT_MESSAGE_LENGTH
     THEN Concat(<<title, NL(2), truncatedBody, NL(2), footer, NL(2), coAuthorsText>>)
     ELSE message

\* Authors of the commits of the initial graph.
Alice == [name |-> Lit("Alice"), email |-> Lit("alice@example.com")]
Bob == [name |-> Lit("Bob"), email |-> Lit("bob@example.com")]
Dev == [name |-> Lit("Dev"), email |-> Lit("dev@example.com")]
Bot == [name |-> Lit("Tiramiss"), email |-> Lit("tiramiss@users.noreply.github.com")]

\* git config user.name / user.email of the repository.
HeadAuthor == Dev

\* Author and message of every commit of InitCommits, by commit id.
InitRecords ==
  << Record(Bob.name, Bob.email, <<Lit("base")>>),
     Record(Dev.name, Dev.email, <<Lit("vendor tool")>>),
     Record(Alice.name, Alice.email, <<Lit("add a")>>),
     Record(Alice.name, Alice.email, <<Lit("add b"), <<>>, Lit("details of b")>>),
     Record(Bob.name, Bob.email, <<Lit("change b")>>),
     Record(Dev.name, Dev.email, <<Lit("change a and tool")>>),
     Record(Bot.name, Bot.email, <<Lit("import")>>),
     Record(Alice.name, Alice.email, <<Lit("empty")>>),
     Record(Bob.name, Bob.email, <<Lit("remove tool")>>),
     Record(Bob.name, Bob.email, <<Lit("update tool")>>),
     Record(Dev.name, Dev.email, <<Lit("squash: tS")>>) >>

NoSynth == [topic |-> <<>>, records |-> <<>>, message |-> <<>>]

\* No path was put to the allow-list predicate.
NoProbe == [segments |-> <<>>, path |-> "", matched |-> "unknown"]

\* issue-to-topics has not run.
NoIssue ==
  [bullets |-> <<>>, token |-> FALSE, items |-> <<>>, bundleDefs |-> <<>>,
   prToBranch |-> <<>>, topics |-> <<>>, written |-> FALSE,
   file |-> "", readItems |-> <<>>, readBack |-> FALSE]

\* Mutant: the range starts at the common ancestor with the base reference.
squashCommitFromBase(r, topic) ==
  LET t == RevParse(r, topic)
      common == GitMergeBase(r, t, RevParse(r, BASE_REF))
      commitIds == RevListAncestryPath(r, common, t)
      records == [k \in DOMAIN commitIds |-> InitRecords[commitIds[k]]]
      commits == [k \in DOMAIN records |-> ShowRecord(records[k])]
  IN [topic |-> topic, records |-> records,
      message |-> squashMessage(topic, commits, HeadAuthor)]

\* The message applySquash passes to git commit for a topic: the commits of
\* listCommits(common, topic) are shown and the message is built from them.
squashCommit(r, topic) ==
  LET t == RevParse(r, topic)
      common == GitMergeBase(r, HeadCommit(r), t)
      commitIds == RevListAncestryPath(r, common, t)
      records == [k \in DOMAIN commitIds |-> InitRecords[commitIds[k]]]
      commits == [k \in DOMAIN records |-> ShowRecord(records[k])]
  IN [topic |-> topic, records |-> records,
      message |-> squashMessage(topic, commits, HeadAuthor)]

\* ------------------------------------------------------------------- state
VARIABLES
  repo,      \* the git repository
  cfg,       \* the command line and list files of the invocations
  pc,        \* position of the running program; "idle" between runs
  i,         \* index of the next topic of the current list
  status,    \* state of every topic of the current list
  exitCode,  \* -1 while running, else the exit code of the last run
  failure,   \* the error that ended the last run, "" when none
  ops,       \* mutating git commands started in the current run
  pushes,    \* pushes of the current run: <<branch, form>>
  run,       \* number of invocations so far
  entry,     \* what the current run found at entry, and how the last one ended
  before,    \* the repository before the last topic was processed
  bs,        \* bundle-topics: parsed bundles, current bundle, base, start, paths reported unmerged
  synth,     \* the last squash message: topic, commits read, message built
  procs,     \* external processes in flight (spawned, not yet closed)
  issue,     \* issue-to-topics: the bullets read, the items, the list written
  probe      \* a path put to the allow-list predicate, and the answer

vars == <<repo, cfg, pc, i, status, exitCode, failure, ops, pushes, run, entry, before, bs, synth,
          procs, issue, probe>>

\* Topic lists of at most n entries.
RECURSIVE SeqsUpTo(_, _)
SeqsUpTo(S, n) ==
  IF n = 0 THEN {<<>>}
  ELSE LET shorter == SeqsUpTo(S, n - 1)
       IN shorter \cup {Append(s, x) : s \in {q \in shorter : Len(q) = n - 1}, x \in S}

Pendings(n) == [k \in 1..n |-> "Pending"]

\* The program ends: exit code and the error, if any.
Exit(code, why) ==
  /\ pc' = "idle"
  /\ exitCode' = code
  /\ failure' = why

\* ------------------------------------------------------ apply-topics: main
\* ensureClean, first statement of main.
\* Mutant: the precondition is not checked.
ensureCleanUnchecked(next) ==
  /\ pc' = next
  /\ UNCHANGED <<exitCode, failure, synth, procs, issue, probe>>

ensureClean(next) ==
  IF StatusNonEmpty(repo)
  THEN Exit(1, "DirtyWorkingTree")
  ELSE /\ pc' = next
       /\ UNCHANGED <<exitCode, failure>>

MainEnsureClean ==
  /\ cfg.prog = "apply"
  /\ pc = "ensureClean"
  /\ ensureClean("read")
  /\ UNCHANGED <<repo, cfg, i, status, ops, pushes, run, entry, before, bs, synth, procs, issue, probe>>

\* readTopics: without a topics file the program returns at once.
MainReadTopics ==
  /\ cfg.prog = "apply"
  /\ pc = "read"
  /\ IF cfg.topicsPath
     THEN /\ pc' = "integrate"
          /\ UNCHANGED <<exitCode, failure>>
     ELSE Exit(0, "")
  /\ UNCHANGED <<repo, cfg, i, status, ops, pushes, run, entry, before, bs, synth, procs, issue, probe>>

\* Mutant: the integration branch is restarted from the base reference.
IntegrateStartAtBase(r) == RevParse(r, BASE_REF)

\* The commit the integration branch is (re)started from.
IntegrateStart(r) == RevParse(r, <<"HEAD">>)

\* Mutant: an existing integration branch is checked out as it is.
MainIntegrateKeeping ==
  /\ cfg.prog = "apply"
  /\ pc = "integrate"
  /\ LET workingHead == IntegrateStart(repo)
         sw == IF ShowRef(repo, Heads(INTEGRATE_BRANCH))
               THEN GitSwitch(repo, INTEGRATE_BRANCH)
               ELSE GitSwitchC(repo, INTEGRATE_BRANCH, workingHead)
     IN /\ repo' = sw.r
        /\ ops' = ops \cup {"switch"}
        /\ IF sw.code # 0
           THEN Exit(1, "GitFailed")
           ELSE /\ pc' = "topics"
                /\ UNCHANGED <<exitCode, failure>>
  /\ UNCHANGED <<cfg, i, status, pushes, run, entry, before, bs, synth, procs, issue, probe>>

\* Create or reset the integration branch at the HEAD found at entry.
MainIntegrate ==
  /\ cfg.prog = "apply"
  /\ pc = "integrate"
  /\ LET workingHead == IntegrateStart(repo)
         exists == ShowRef(repo, Heads(INTEGRATE_BRANCH))
         sw == GitSwitch(repo, INTEGRATE_BRANCH)
         rs == GitResetHard(sw.r, workingHead)
         sc == GitSwitchC(repo, INTEGRATE_BRANCH, workingHead)
     IN IF exists
        THEN IF sw.code # 0
             THEN /\ repo' = sw.r
                  /\ ops' = ops \cup {"switch"}
                  /\ Exit(1, "GitFailed")
             ELSE /\ repo' = rs.r
                  /\ ops' = ops \cup {"switch", "reset"}
                  /\ pc' = "topics"
                  /\ UNCHANGED <<exitCode, failure>>
        ELSE IF sc.code # 0
             THEN /\ repo' = sc.r
                  /\ ops' = ops \cup {"switch"}
                  /\ Exit(1, "GitFailed")
             ELSE /\ repo' = sc.r
                  /\ ops' = ops \cup {"switch", "create"}
                  /\ pc' = "topics"
                  /\ UNCHANGED <<exitCode, failure>>
  /\ UNCHANGED <<cfg, i, status, pushes, run, entry, before, bs, synth, procs, issue, probe>>

\* One strategy application, selected by MODE.
applyTopic(r, topic) ==
  IF cfg.mode = "merge" THEN applyMerge(r, topic)
  ELSE IF cfg.mode = "pick" THEN applyPick(r, topic, BASE_REF)
  ELSE applySquash(r, topic)

\* Mutant: a topic that resolves to nothing is passed over.
MainApplyTopicLenient ==
  /\ cfg.prog = "apply"
  /\ pc = "topics"
  /\ i <= Len(cfg.topics)
  /\ before' = repo
  /\ LET topic == resolveTopicRef(repo, cfg.topics[i])
         o == applyTopic(repo, topic)
     IN IF topic = <<>>
        THEN /\ i' = i + 1
             /\ UNCHANGED <<repo, status, ops, pc, exitCode, failure>>
        ELSE /\ repo' = o.r
             /\ status' = [status EXCEPT ![i] = o.st]
             /\ ops' = ops \cup o.did
             /\ IF o.fail # ""
                THEN /\ Exit(1, o.fail)
                     /\ UNCHANGED i
                ELSE /\ i' = i + 1
                     /\ UNCHANGED <<pc, exitCode, failure>>
  /\ LET topic == resolveTopicRef(repo, cfg.topics[i])
     IN synth' = IF topic # <<>> /\ cfg.mode = "squash"
                    /\ "commit" \in applyTopic(repo, topic).did
                 THEN squashCommit(repo, topic)
                 ELSE synth
  /\ UNCHANGED <<cfg, pushes, run, entry, bs, procs, issue, probe>>

\* One iteration of the topic loop: resolve the name, apply the strategy.
MainApplyTopic ==
  /\ cfg.prog = "apply"
  /\ pc = "topics"
  /\ i <= Len(cfg.topics)
  /\ before' = repo
  /\ LET topic == resolveTopicRef(repo, cfg.topics[i])
         o == applyTopic(repo, topic)
     IN IF topic = <<>>
        THEN /\ Exit(1, "RefNotFound")
             /\ UNCHANGED <<repo, i, status, ops>>
        ELSE /\ repo' = o.r
             /\ status' = [status EXCEPT ![i] = o.st]
             /\ ops' = ops \cup o.did
             /\ IF o.fail # ""
                THEN /\ Exit(1, o.fail)
                     /\ UNCHANGED i
                ELSE /\ i' = i + 1
                     /\ UNCHANGED <<pc, exitCode, failure>>
  /\ LET topic == resolveTopicRef(repo, cfg.topics[i])
     IN synth' = IF topic # <<>> /\ cfg.mode = "squash"
                    /\ "commit" \in applyTopic(repo, topic).did
                 THEN squashCommit(repo, topic)
                 ELSE synth
  /\ UNCHANGED <<cfg, pushes, run, entry, bs, procs, issue, probe>>

\* Mutant: the test for the remote branch is inverted.
PushFormInverted(r, n) ==
  IF ShowRef(r, Remotes(OriginOf(n))) THEN "-u" ELSE "--force"

\* The push form: "-u" creates the remote branch with tracking, "--force"
\* overwrites it.
PushForm(r, n) ==
  IF ~ShowRef(r, Remotes(OriginOf(n))) THEN "-u" ELSE "--force"

\* Mutant: the integration branch is pushed whatever the push toggle says.
MainPushAlways ==
  /\ cfg.prog = "apply"
  /\ pc = "topics"
  /\ i > Len(cfg.topics)
  /\ LET ps == GitPush(repo, INTEGRATE_BRANCH)
     IN /\ repo' = ps.r
        /\ pushes' = Append(pushes, <<INTEGRATE_BRANCH, PushForm(repo, INTEGRATE_BRANCH)>>)
        /\ ops' = ops \cup {"push"}
        /\ IF ps.code # 0 THEN Exit(1, "GitFailed") ELSE Exit(0, "")
  /\ UNCHANGED <<cfg, i, status, run, entry, before, bs, synth, procs, issue, probe>>

\* After the last topic: push when enabled, then report success.
MainPush ==
  /\ cfg.prog = "apply"
  /\ pc = "topics"
  /\ i > Len(cfg.topics)
  /\ IF cfg.PUSH
     THEN LET ps == GitPush(repo, INTEGRATE_BRANCH)
          IN /\ repo' = ps.r
             /\ pushes' = Append(pushes, <<INTEGRATE_BRANCH, PushForm(repo, INTEGRATE_BRANCH)>>)
             /\ ops' = ops \cup {"push"}
             /\ IF ps.code # 0 THEN Exit(1, "GitFailed") ELSE Exit(0, "")
     ELSE /\ Exit(0, "")
          /\ UNCHANGED <<repo, pushes, ops>>
  /\ UNCHANGED <<cfg, i, status, run, entry, before, bs, synth, procs, issue, probe>>

\* ----------------------------------------------------------- bundle-topics
\* --baseRef: the default, and the recommended HEAD.
BUNDLE_BASE_REF == WORKING_BRANCH
BundleBaseRefs == {BUNDLE_BASE_REF, <<"HEAD">>}

\* A path as git prints it: the segments with "/" between them.
RECURSIVE PathName(_)
PathName(segments) ==
  IF segments = <<>> THEN ""
  ELSE IF Len(segments) = 1 THEN segments[1]
  ELSE segments[1] \o "/" \o PathName(Tail(segments))

\* String.prototype.startsWith
startsWith(s, prefix) ==
  Len(s) >= Len(prefix) /\ SubSeq(s, 1, Len(prefix)) = prefix

\* Mutant: the prefixes are compared without the separator.
shouldKeepOursByPrefix(path) ==
  \/ startsWith(path, ".tiramiss")
  \/ startsWith(path, ".github/workflows")

shouldKeepOursOnMergeConflict(path) ==
  \/ path = ".tiramiss"
  \/ startsWith(path, ".tiramiss/")
  \/ path = ".github/workflows"
  \/ startsWith(path, ".github/workflows/")

isMergeInProgress(r) == r.op = "merge"

listUnmergedFiles(r) == r.unmerged

\* tryAutoResolveMergeConflictKeepingOurs: the repository left, whether the
\* merge was concluded, the paths still unmerged, and whether a git step of
\* the resolver itself failed (the error then leaves rebuildBundle as it is).
Auto(r, resolved, remaining, threw) ==
  [r |-> r, resolved |-> resolved, remaining |-> remaining, threw |-> threw]

\* Mutant: every unmerged path takes our side.
tryAutoResolveKeepingOursEverywhere(r) ==
  LET unmerged == listUnmergedFiles(r)
      keepOurs == unmerged
      co == GitCheckoutOursAdd(r, keepOurs)
      remaining == listUnmergedFiles(co.r)
      cm == GitCommit(co.r)
  IN IF ~isMergeInProgress(r) THEN Auto(r, FALSE, {}, FALSE)
     ELSE IF unmerged = {} THEN Auto(r, FALSE, {}, FALSE)
     ELSE IF keepOurs = {} THEN Auto(r, FALSE, unmerged, FALSE)
     ELSE IF co.code # 0 THEN Auto(co.r, FALSE, unmerged, TRUE)
     ELSE IF remaining # {} THEN Auto(co.r, FALSE, remaining, FALSE)
     ELSE IF cm.code # 0 THEN Auto(cm.r, FALSE, {}, TRUE)
     ELSE Auto(cm.r, TRUE, {}, FALSE)

tryAutoResolveMergeConflictKeepingOurs(r) ==
  LET unmerged == listUnmergedFiles(r)
      keepOurs == {p \in unmerged : shouldKeepOursOnMergeConflict(PathName(p))}
      co == GitCheckoutOursAdd(r, keepOurs)
      remaining == listUnmergedFiles(co.r)
      cm == GitCommit(co.r)
  IN IF ~isMergeInProgress(r) THEN Auto(r, FALSE, {}, FALSE)
     ELSE IF unmerged = {} THEN Auto(r, FALSE, {}, FALSE)
     ELSE IF keepOurs = {} THEN Auto(r, FALSE, unmerged, FALSE)
     ELSE IF co.code # 0 THEN Auto(co.r, FALSE, unmerged, TRUE)
     ELSE IF remaining # {} THEN Auto(co.r, FALSE, remaining, FALSE)
     ELSE IF cm.code # 0 THEN Auto(cm.r, FALSE, {}, TRUE)
     ELSE Auto(cm.r, TRUE, {}, FALSE)

\* readBundles: a line is <<name, topic, ...>>; ok is FALSE for the thrown
\* error of an invalid definition.
LineInvalid(parts) ==
  \/ Len(parts) < 2
  \/ \E k \in 2..Len(parts) : parts[k] = parts[1]
  \/ \E k, l \in 2..Len(parts) : k # l /\ parts[k] = parts[l]

\* Mutant: only the first definition is validated.
readBundlesFirstOnly(lines) ==
  IF lines # <<>> /\ LineInvalid(lines[1])
  THEN [ok |-> FALSE, bundles |-> <<>>]
  ELSE [ok |-> TRUE,
        bundles |-> [k \in DOMAIN lines |->
                       [name |-> lines[k][1],
                        topics |-> SubSeq(lines[k], 2, Len(lines[k]))]]]

readBundles(lines) ==
  IF \E k \in DOMAIN lines : LineInvalid(lines[k])
  THEN [ok |-> FALSE, bundles |-> <<>>]
  ELSE [ok |-> TRUE,
        bundles |-> [k \in DOMAIN lines |->
                       [name |-> lines[k][1],
                        topics |-> SubSeq(lines[k], 2, Len(lines[k]))]]]

\* Mutant: upstream is tried before origin.
resolveRefUpstreamFirst(r, topic) ==
  IF RevParse(r, topic) # NoCommit THEN topic
  ELSE IF RevParse(r, UpstreamOf(topic)) # NoCommit THEN UpstreamOf(topic)
  ELSE IF RevParse(r, OriginOf(topic)) # NoCommit THEN OriginOf(topic)
  ELSE <<>>

resolveRef(r, topic) ==
  IF RevParse(r, topic) # NoCommit THEN topic
  ELSE IF RevParse(r, OriginOf(topic)) # NoCommit THEN OriginOf(topic)
  ELSE IF RevParse(r, UpstreamOf(topic)) # NoCommit THEN UpstreamOf(topic)
  ELSE <<>>

BundleEnsureClean ==
  /\ cfg.prog = "bundle"
  /\ pc = "ensureClean"
  /\ ensureClean("init")
  /\ UNCHANGED <<repo, cfg, i, status, ops, pushes, run, entry, before, bs, synth, procs, issue, probe>>

\* currentBranch, rev HEAD, initBundlesFileIfMissing and readBundles.
BundleInit ==
  /\ cfg.prog = "bundle"
  /\ pc = "init"
  /\ LET parsed == readBundles(cfg.lines)
     IN IF cfg.bundlesFile = "missing"
        THEN /\ Exit(0, "")                       \* template written
             /\ UNCHANGED bs
        ELSE IF cfg.bundlesFile = "missing-ci"
        THEN /\ Exit(1, "BundlesFileMissing")
             /\ UNCHANGED bs
        ELSE IF ~parsed.ok
        THEN /\ Exit(1, "BundleInvalid")
             /\ UNCHANGED bs
        ELSE /\ bs' = [bs EXCEPT !.bundles = parsed.bundles,
                                 !.startBranch = repo.head.branch,
                                 !.startCommit = HeadCommit(repo)]
             /\ pc' = "fetch"
             /\ UNCHANGED <<exitCode, failure>>
  /\ UNCHANGED <<repo, cfg, i, status, ops, pushes, run, entry, before, synth, procs, issue, probe>>

\* git fetch --all --prune --no-tags, then the base commit is resolved once.
BundleFetch ==
  /\ cfg.prog = "bundle"
  /\ pc = "fetch"
  /\ ops' = ops \cup {"fetch"}
  /\ LET baseCommit == RevParse(repo, cfg.baseRef)
     IN IF baseCommit = NoCommit
        THEN /\ Exit(1, "GitFailed")
             /\ UNCHANGED bs
        ELSE /\ bs' = [bs EXCEPT !.baseCommit = baseCommit, !.bi = 1]
             /\ pc' = "bundle"
             /\ UNCHANGED <<exitCode, failure>>
  /\ UNCHANGED <<repo, cfg, i, status, pushes, run, entry, before, synth, procs, issue, probe>>

\* Mutant: the base reference is resolved again for every bundle.
recreateBundleBranchAtBaseRef(r, name, baseCommit) ==
  GitSwitchC(r, name, RevParse(r, cfg.baseRef))

\* git switch -C <bundle> <baseCommit>, with the commit main resolved.
recreateBundleBranch(r, name, baseCommit) ==
  GitSwitchC(r, name, baseCommit)

\* Mutant: an existing bundle branch is checked out as it is.
BundleStartIncremental ==
  /\ cfg.prog = "bundle"
  /\ pc = "bundle"
  /\ bs.bi <= Len(bs.bundles)
  /\ LET name == bs.bundles[bs.bi].name
         sc == IF ShowRef(repo, Heads(name)) THEN GitSwitch(repo, name)
               ELSE GitSwitchC(repo, name, bs.baseCommit)
     IN /\ repo' = sc.r
        /\ ops' = ops \cup {"switch", "create"}
        /\ IF sc.code # 0
           THEN /\ Exit(1, "GitFailed")
                /\ UNCHANGED <<i, status>>
           ELSE /\ pc' = "btopics"
                /\ i' = 1
                /\ status' = Pendings(Len(bs.bundles[bs.bi].topics))
                /\ UNCHANGED <<exitCode, failure>>
  /\ UNCHANGED <<cfg, pushes, run, entry, before, bs, synth, procs, issue, probe>>

\* rebuildBundle, first statement: recreate the bundle branch at the base.
BundleStart ==
  /\ cfg.prog = "bundle"
  /\ pc = "bundle"
  /\ bs.bi <= Len(bs.bundles)
  /\ LET sc == recreateBundleBranch(repo, bs.bundles[bs.bi].name, bs.baseCommit)
     IN /\ repo' = sc.r
        /\ ops' = ops \cup {"switch", "create"}
        /\ IF sc.code # 0
           THEN /\ Exit(1, "GitFailed")
                /\ UNCHANGED <<i, status>>
           ELSE /\ pc' = "btopics"
                /\ i' = 1
                /\ status' = Pendings(Len(bs.bundles[bs.bi].topics))
                /\ UNCHANGED <<exitCode, failure>>
  /\ UNCHANGED <<cfg, pushes, run, entry, before, bs, synth, procs, issue, probe>>

\* rebuildBundle, one iteration of the topic loop.  The error thrown after
\* the resolver gave up ("ApplyConflict") names the bundle and the topic; an
\* error of a git step of the resolver leaves the catch block as it is
\* ("GitFailed") and names the failed git command.
mergeBundleTopic(r, topic) ==
  LET t == RevParse(r, topic)
      m == GitMergeNoFF(r, t)
      auto == tryAutoResolveMergeConflictKeepingOurs(m.r)
  IN IF IsAncestor(r, t, HeadCommit(r)) THEN Out(r, "Skipped", "", {})
     ELSE IF m.code = 0 THEN Out(m.r, "Applied", "", {"merge"})
     ELSE IF auto.resolved THEN Out(auto.r, "Applied", "", {"merge", "commit"})
     ELSE IF auto.threw THEN Out(auto.r, "Conflict", "GitFailed", {"merge"})
     ELSE Out(auto.r, "Conflict", "ApplyConflict", {"merge"})

BundleTopic ==
  /\ cfg.prog = "bundle"
  /\ pc = "btopics"
  /\ i <= Len(bs.bundles[bs.bi].topics)
  /\ before' = repo
  /\ LET topic == resolveRef(repo, bs.bundles[bs.bi].topics[i])
         o == mergeBundleTopic(repo, topic)
     IN IF topic = <<>>
        THEN /\ Exit(1, "RefNotFound")
             /\ UNCHANGED <<repo, i, status, ops>>
        ELSE /\ repo' = o.r
             /\ status' = [status EXCEPT ![i] = o.st]
             /\ ops' = ops \cup o.did
             /\ IF o.fail # ""
                THEN /\ Exit(1, o.fail)
                     /\ UNCHANGED i
                ELSE /\ i' = i + 1
                     /\ UNCHANGED <<pc, exitCode, failure>>
  /\ LET topic == resolveRef(repo, bs.bundles[bs.bi].topics[i])
         t == RevParse(repo, topic)
     IN bs' = IF topic # <<>> /\ mergeBundleTopic(repo, topic).fail = "ApplyConflict"
              THEN [bs EXCEPT !.remaining =
                      tryAutoResolveMergeConflictKeepingOurs(GitMergeNoFF(repo, t).r).remaining]
              ELSE bs
  /\ UNCHANGED <<cfg, pushes, run, entry, synth, procs, issue, probe>>

\* Mutant: only the last bundle of the file is pushed.
BundlePushLastOnly ==
  /\ cfg.prog = "bundle"
  /\ pc = "btopics"
  /\ i > Len(bs.bundles[bs.bi].topics)
  /\ LET name == bs.bundles[bs.bi].name
         ps == GitPush(repo, name)
     IN IF cfg.PUSH /\ bs.bi = Len(bs.bundles)
        THEN /\ repo' = ps.r
             /\ pushes' = Append(pushes, <<name, PushForm(repo, name)>>)
             /\ ops' = ops \cup {"push"}
             /\ IF ps.code # 0
                THEN /\ Exit(1, "GitFailed")
                     /\ UNCHANGED bs
                ELSE /\ pc' = "bundle"
                     /\ bs' = [bs EXCEPT !.bi = bs.bi + 1]
                     /\ UNCHANGED <<exitCode, failure>>
        ELSE /\ pc' = "bundle"
             /\ bs' = [bs EXCEPT !.bi = bs.bi + 1]
             /\ UNCHANGED <<repo, pushes, ops, exitCode, failure>>
  /\ UNCHANGED <<cfg, i, status, run, entry, before, synth, procs, issue, probe>>

\* rebuildBundle, after the topic loop: push the bundle branch when enabled.
BundlePush ==
  /\ cfg.prog = "bundle"
  /\ pc = "btopics"
  /\ i > Len(bs.bundles[bs.bi].topics)
  /\ LET name == bs.bundles[bs.bi].name
         ps == GitPush(repo, name)
     IN IF cfg.PUSH
        THEN /\ repo' = ps.r
             /\ pushes' = Append(pushes, <<name, PushForm(repo, name)>>)
             /\ ops' = ops \cup {"push"}
             /\ IF ps.code # 0
                THEN /\ Exit(1, "GitFailed")
                     /\ UNCHANGED bs
                ELSE /\ pc' = "bundle"
                     /\ bs' = [bs EXCEPT !.bi = bs.bi + 1]
                     /\ UNCHANGED <<exitCode, failure>>
        ELSE /\ pc' = "bundle"
             /\ bs' = [bs EXCEPT !.bi = bs.bi + 1]
             /\ UNCHANGED <<repo, pushes, ops, exitCode, failure>>
  /\ UNCHANGED <<cfg, i, status, run, entry, before, synth, procs, issue, probe>>

\* Mutant: the run always ends on the working branch.
BundleSwitchBackToWorking ==
  /\ cfg.prog = "bundle"
  /\ pc = "bundle"
  /\ bs.bi > Len(bs.bundles)
  /\ LET sw == GitSwitch(repo, WORKING_BRANCH)
     IN /\ repo' = sw.r
        /\ ops' = ops \cup {"switch"}
        /\ IF sw.code # 0 THEN Exit(1, "GitFailed") ELSE Exit(0, "")
  /\ UNCHANGED <<cfg, i, status, pushes, run, entry, before, bs, synth, procs, issue, probe>>

\* After the last bundle: back to the branch (or commit) of the entry.
BundleSwitchBack ==
  /\ cfg.prog = "bundle"
  /\ pc = "bundle"
  /\ bs.bi > Len(bs.bundles)
  /\ LET sw == IF bs.startBranch # <<>>
               THEN GitSwitch(repo, bs.startBranch)
               ELSE GitSwitchDetach(repo, bs.startCommit)
     IN /\ repo' = sw.r
        /\ ops' = ops \cup {"switch"}
        /\ IF sw.code # 0 THEN Exit(1, "GitFailed") ELSE Exit(0, "")
  /\ UNCHANGED <<cfg, i, status, pushes, run, entry, before, bs, synth, procs, issue, probe>>

\* ------------------------------------------------- the operator of the tool
\* The command line is re-used for every invocation of a behaviour.
bx == <<"bundle", "x">>
by == <<"bundle", "y">>

BundleFiles ==
  { <<>>,
    << <<bx, <<"tA">>>> >>,
    << <<bx, <<"tC">>>>, <<by, <<"tA">>, <<"tB">>>> >>,
    << <<bx, <<"tA">>, <<"tC">>>> >>,
    << <<by, <<"tE">>, <<"tA">>>>, <<bx, by, <<"tZ">>>> >>,
    << <<bx, <<"tA">>>>, <<by, <<"tM">>>> >>,
    << <<bx, <<"tA">>>>, <<by, <<"tA">>, by>> >>,
    << <<bx, <<"tA">>, <<"tA">>>> >>,
    << <<bx, <<"tB">>>>, <<by>> >>,
    << <<bx, <<"tA">>>>, <<bx, <<"tB">>>> >>,
    << <<bx, <<"tO">>>> >>,
    << <<bx, <<"tD">>, <<"tU">>>>, <<by, <<"tA">>>> >>,
    << <<bx, <<"tD">>, <<"tA">>, <<"tV">>>> >> }

ApplyCfgs ==
  {[prog |-> "apply", mode |-> m, topics |-> ts, topicsPath |-> TRUE,
    PUSH |-> p, bundlesFile |-> "present", lines |-> <<>>] :
      m \in Modes, ts \in SeqsUpTo(ListedTopics, MaxTopics), p \in BOOLEAN}
  \cup {[prog |-> "apply", mode |-> "squash", topics |-> <<>>, topicsPath |-> FALSE,
         PUSH |-> TRUE, bundlesFile |-> "present", lines |-> <<>>]}

\* The last command line names a bundle branch as the base: bundle/y exists
\* before the run and is itself rebuilt first.
BundleCfgs ==
  {[prog |-> "bundle", mode |-> "merge", topics |-> <<>>, topicsPath |-> TRUE,
    PUSH |-> p, bundlesFile |-> "present", lines |-> f, baseRef |-> b] :
      p \in BOOLEAN, f \in BundleFiles, b \in BundleBaseRefs}
  \cup {[prog |-> "bundle", mode |-> "merge", topics |-> <<>>, topicsPath |-> TRUE,
         PUSH |-> TRUE, bundlesFile |-> f, lines |-> <<>>, baseRef |-> BUNDLE_BASE_REF] :
           f \in {"missing", "missing-ci"}}
  \cup {[prog |-> "bundle", mode |-> "merge", topics |-> <<>>, topicsPath |-> TRUE,
         PUSH |-> FALSE, bundlesFile |-> "present",
         lines |-> << <<by, <<"tC">>>>, <<bx, <<"tE">>>> >>, baseRef |-> by]}

InitBs ==
  [bundles |-> <<>>, bi |-> 1, baseCommit |-> NoCommit,
   startBranch |-> <<>>, startCommit |-> NoCommit, remaining |-> {}]

NoEntry ==
  [dirty |-> FALSE, head |-> NoCommit, branch |-> <<>>, ncommits |-> 0,
   integrate |-> NoCommit,
   prevExit |-> -1, prevFailure |-> "", prevI |-> 0, resumed |-> FALSE,
   resolved |-> FALSE]

\* bundle-topics is started on the working branch or, as in a CI checkout,
\* with HEAD detached at its commit.
Init ==
  /\ cfg \in ApplyCfgs \cup BundleCfgs
  /\ \E d \in BOOLEAN :
       \/ repo = InitRepo(d)
       \/ cfg.prog = "bundle" /\ repo = Detached(InitRepo(d))
  /\ pc = "idle"
  /\ i = 1
  /\ status = <<>>
  /\ exitCode = -1
  /\ failure = ""
  /\ ops = {}
  /\ pushes = <<>>
  /\ run = 0
  /\ entry = NoEntry
  /\ before = repo
  /\ bs = InitBs
  /\ synth = NoSynth
  /\ procs = {}
  /\ issue = NoIssue
  /\ probe = NoProbe

\* The program is started (again) with the same command line.
Invoke ==
  /\ pc = "idle"
  /\ run < MaxRuns
  /\ run' = run + 1
  /\ pc' = "ensureClean"
  /\ i' = 1
  /\ status' = Pendings(Len(cfg.topics))
  /\ exitCode' = -1
  /\ failure' = ""
  /\ ops' = {}
  /\ pushes' = <<>>
  /\ entry' = [dirty |-> StatusNonEmpty(repo),
               head |-> HeadCommit(repo),
               branch |-> repo.head.branch,
               ncommits |-> Len(repo.commits),
               integrate |-> repo.refs[Heads(INTEGRATE_BRANCH)],
               prevExit |-> exitCode,
               prevFailure |-> failure,
               prevI |-> i,
               resumed |-> entry.resolved,
               resolved |-> FALSE]
  /\ before' = repo
  /\ bs' = InitBs
  /\ synth' = NoSynth
  /\ UNCHANGED <<repo, cfg, procs, issue, probe>>

\* Between runs the operator completes the stopped operation by hand: the
\* unmerged paths take one side's content, then `git commit` (merge, squash)
\* or `git cherry-pick --continue` / `--skip`.
Resolved(r, side) ==
  [r EXCEPT !.index = [p \in Paths |->
                         IF p \in r.unmerged
                         THEN IF side = "ours" THEN TreeOf(r, HeadCommit(r))[p]
                              ELSE TreeOf(r, r.opHead)[p]
                         ELSE r.index[p]],
            !.unmerged = {}]

OperatorResolve ==
  /\ pc = "idle"
  /\ repo.unmerged # {} \/ repo.op # "none"
  /\ \E side \in {"ours", "theirs"} :
       LET staged == Resolved(repo, side)
           cm == GitCommit(staged)
       IN repo' = IF cm.code = 0 THEN cm.r
                  ELSE [staged EXCEPT !.op = "none", !.opHead = NoCommit]
  /\ entry' = [entry EXCEPT !.resolved = TRUE]
  /\ UNCHANGED <<cfg, pc, i, status, exitCode, failure, ops, pushes, run, before, bs, synth, procs, issue, probe>>

Next ==
  \/ Invoke
  \/ MainEnsureClean
  \/ MainReadTopics
  \/ MainIntegrate
  \/ MainApplyTopic
  \/ MainPush
  \/ BundleEnsureClean
  \/ BundleInit
  \/ BundleFetch
  \/ BundleStart
  \/ BundleTopic
  \/ BundlePush
  \/ BundleSwitchBack
  \/ OperatorResolve

Spec == Init /\ [][Next]_vars

\* --------------------------------------- the squash message on any commits
MaxRecords == 3        \* most commits in the range of a squashed topic

LongAuthor == [name |-> <<Piece("n", 1, 70000)>>, email |-> Lit("long@example.com")]

\* Commits a topic can hold: short and empty messages, several lines, and
\* subject lines near the message limit in characters of 1 to 4 bytes.
RecordKinds ==
  { Record(Alice.name, Alice.email, <<Lit("fix")>>),
    Record(Alice.name, Alice.email, <<Lit("subject"), <<>>, Lit("details")>>),
    Record(Bob.name, Bob.email, <<>>),
    Record(Dev.name, Dev.email, <<Lit("fix")>>),
    Record(Bot.name, Bot.email, <<Lit("fix")>>),
    Record(Alice.name, Alice.email, << <<Piece("a", 1, 65500)>> >>),
    Record(Bob.name, Bob.email, << <<Piece("U+00E9", 2, 32760)>> >>),
    Record(Dev.name, Dev.email, << <<Piece("U+3042", 3, 21850)>> >>),
    Record(Bot.name, Bot.email, << <<Piece("U+1F600", 4, 16390)>> >>),
    Record(LongAuthor.name, LongAuthor.email, <<Lit("fix")>>) }

SynthTopics == {<<"tA">>, <<"origin", "tB">>}

SynthInit ==
  /\ repo = InitRepo(FALSE)
  /\ cfg = [prog |-> "apply", mode |-> "squash", topics |-> <<>>, topicsPath |-> TRUE,
            PUSH |-> FALSE, bundlesFile |-> "present", lines |-> <<>>]
  /\ pc = "message"
  /\ i = 1
  /\ status = <<>>
  /\ exitCode = -1
  /\ failure = ""
  /\ ops = {}
  /\ pushes = <<>>
  /\ run = 0
  /\ entry = NoEntry
  /\ before = repo
  /\ bs = InitBs
  /\ procs = {}
  /\ issue = NoIssue
  /\ probe = NoProbe
  /\ \E t \in SynthTopics, rs \in SeqsUpTo(RecordKinds, MaxRecords) :
       synth = [topic |-> t, records |-> rs, message |-> <<>>]

\* Lines 144-196 of applySquash on the commits of the range.
SynthMessage ==
  /\ pc = "message"
  /\ pc' = "commit"
  /\ LET commits == [k \in DOMAIN synth.records |-> ShowRecord(synth.records[k])]
     IN synth' = [synth EXCEPT !.message = squashMessage(synth.topic, commits, HeadAuthor)]
  /\ UNCHANGED <<repo, cfg, i, status, exitCode, failure, ops, pushes, run, entry, before, bs, procs, issue, probe>>

SynthNext == SynthMessage

SynthSpec == SynthInit /\ [][SynthNext]_vars

\* ------------- apply-topics where the working branch has moved on
\* Topics that branch from the base reference (tS, tB) and from the working
\* branch (tU); the integration branch may exist from an earlier run and HEAD
\* may be detached.
WorkTopics == {<<"tS">>, <<"tB">>, <<"tU">>, <<"tO">>, <<"tA">>}

WorkCfgs ==
  {[prog |-> "apply", mode |-> m, topics |-> ts, topicsPath |-> TRUE,
    PUSH |-> p, bundlesFile |-> "present", lines |-> <<>>] :
      m \in Modes, ts \in SeqsUpTo(WorkTopics, MaxTopics), p \in BOOLEAN}

WorkRepos ==
  {InitRepo(FALSE), Detached(InitRepo(FALSE)),
   Integrated(InitRepo(FALSE)), Detached(Integrated(InitRepo(FALSE))),
   Advanced(InitRepo(FALSE)), Reworked(InitRepo(FALSE))}

WorkInit ==
  /\ repo \in WorkRepos
  /\ cfg \in WorkCfgs
  /\ pc = "idle"
  /\ i = 1
  /\ status = <<>>
  /\ exitCode = -1
  /\ failure = ""
  /\ ops = {}
  /\ pushes = <<>>
  /\ run = 0
  /\ entry = NoEntry
  /\ before = repo
  /\ bs = InitBs
  /\ synth = NoSynth
  /\ procs = {}
  /\ issue = NoIssue
  /\ probe = NoProbe

WorkNext ==
  \/ Invoke
  \/ MainEnsureClean
  \/ MainReadTopics
  \/ MainIntegrate
  \/ MainApplyTopic
  \/ MainPush
  \/ OperatorResolve

WorkSpec == WorkInit /\ [][WorkNext]_vars

\* ---------------------------------------------------------- issue-to-topics
MaxBullets == 3       \* most bullet lines of the issue body

\* A whitespace-separated token of a bullet: a branch name (form "ref"), a
\* PR number written 123 ("num") or #123 ("hash"), a pull request URL
\* ("url"), or text with characters no branch name has ("bad").  name is the
\* token read as a branch name, number the PR number it carries.
Token(form, name, number) == [form |-> form, name |-> name, number |-> number]

Ref(name) == Token("ref", name, 0)

\* A line of the issue body: prefix is "topic" or "bundle" for a bullet that
\* starts with that word and a colon, "none" for any other line.
Bullet(prefix, tokens) == [prefix |-> prefix, tokens |-> tokens]

\* /^[A-Za-z0-9._/-]+$/: digits alone are a valid branch name token.
isValidRefToken(t) == t.form \in {"ref", "num"}

\* The pull requests of the repository: head branch and labels.  Any other
\* number makes pulls.get fail.
Pulls ==
  (1 :> [head |-> <<"tA">>, labels |-> {"feature"}])
  @@ (2 :> [head |-> <<"tB">>, labels |-> {"bug"}])
  @@ (3 :> [head |-> <<"tA">>, labels |-> {"early", "bug"}])
  @@ (5 :> [head |-> <<"#5-hotfix">>, labels |-> {"feature"}])

\* --labels, split at commas.
requiredLabels == {"early", "feature"}

\* parseTopicSpec; kind "error" stands for the thrown error.
parseTopicSpec(tokens) ==
  IF Len(tokens) # 1 THEN [kind |-> "error"]
  ELSE IF tokens[1].form \in {"num", "hash", "url"}
       THEN [kind |-> "pr", number |-> tokens[1].number]
  ELSE IF ~isValidRefToken(tokens[1]) THEN [kind |-> "error"]
  ELSE [kind |-> "topic", ref |-> tokens[1].name]

\* parseBundleDef: "none" for a bundle named without topics, "error" for a
\* thrown error, else the definition.
parseBundleDef(parts) ==
  LET name == parts[1]
      topics == SubSeq(parts, 2, Len(parts))
  IN IF Len(parts) <= 1 THEN [kind |-> "none"]
     ELSE IF ~isValidRefToken(name) THEN [kind |-> "error"]
     ELSE IF ~(Len(name.name) > 1 /\ name.name[1] = "bundle") THEN [kind |-> "error"]
     ELSE IF \E k \in DOMAIN topics : ~isValidRefToken(topics[k]) THEN [kind |-> "error"]
     ELSE IF \E k \in DOMAIN topics : topics[k].name = name.name THEN [kind |-> "error"]
     ELSE IF \E k, l \in DOMAIN topics : k # l /\ topics[k].name = topics[l].name
          THEN [kind |-> "error"]
     ELSE [kind |-> "def", name |-> name.name,
           topics |-> [k \in DOMAIN topics |-> topics[k].name]]

\* The bullet loop of main (lines 169 to 221): the items in bullet order and
\* the bundle definitions; ok is FALSE when a bullet made it throw.
Parsed(ok, items, defs) == [ok |-> ok, items |-> items, bundleDefs |-> defs]

RECURSIVE parseBullets(_, _, _)
parseBullets(bullets, items, defs) ==
  IF bullets = <<>> THEN Parsed(TRUE, items, defs)
  ELSE LET b == bullets[1]
           rest == Tail(bullets)
           item == parseTopicSpec(b.tokens)
           def == parseBundleDef(b.tokens)
           existing == {k \in DOMAIN defs : defs[k].name = def.name}
       IN IF b.prefix = "none" \/ b.tokens = <<>> THEN parseBullets(rest, items, defs)
          ELSE IF b.prefix = "topic"
          THEN IF item.kind = "error" THEN Parsed(FALSE, items, defs)
               ELSE parseBullets(rest, Append(items, item), defs)
          ELSE IF ~isValidRefToken(b.tokens[1]) THEN Parsed(FALSE, items, defs)
          ELSE IF def.kind = "error" THEN Parsed(FALSE, items, defs)
          ELSE IF def.kind = "none"
          THEN parseBullets(rest, Append(items, [kind |-> "topic", ref |-> b.tokens[1].name]),
                            defs)
          ELSE IF \E k \in existing : defs[k].topics # def.topics
          THEN Parsed(FALSE, items, defs)
          ELSE parseBullets(rest, Append(items, [kind |-> "topic", ref |-> b.tokens[1].name]),
                            IF existing # {} THEN defs
                            ELSE Append(defs, [name |-> def.name, topics |-> def.topics]))

\* The PR numbers of the items.
prNumbers(items) == {items[k].number : k \in {j \in DOMAIN items : items[j].kind = "pr"}}

\* The head branch of a PR that has a required label, <<>> (null) otherwise.
prToBranch(num) ==
  IF Pulls[num].labels \cap requiredLabels # {} THEN Pulls[num].head ELSE <<>>

\* Mutant: a topic is written every time it occurs.
collectTopicsRepeating(items, branches, topics) ==
  LET refs == [k \in DOMAIN items |->
                 IF items[k].kind = "topic" THEN items[k].ref
                 ELSE branches[items[k].number]]
  IN topics \o SelectSeq(refs, LAMBDA ref : ref # <<>>)

\* Lines 277 to 293: resolve the items in order, keep the first occurrence.
RECURSIVE collectTopics(_, _, _)
collectTopics(items, branches, topics) ==
  IF items = <<>> THEN topics
  ELSE LET item == items[1]
           ref == IF item.kind = "topic" THEN item.ref ELSE branches[item.number]
       IN IF ref = <<>> \/ \E k \in DOMAIN topics : topics[k] = ref
          THEN collectTopics(Tail(items), branches, topics)
          ELSE collectTopics(Tail(items), branches, Append(topics, ref))

\* resolvedPrTopics of lines 277 to 293: the topics pushed for a PR item.
RECURSIVE countPrTopics(_, _, _)
countPrTopics(items, branches, topics) ==
  IF items = <<>> THEN 0
  ELSE LET item == items[1]
           ref == IF item.kind = "topic" THEN item.ref ELSE branches[item.number]
       IN IF ref = <<>> \/ \E k \in DOMAIN topics : topics[k] = ref
          THEN countPrTopics(Tail(items), branches, topics)
          ELSE (IF item.kind = "pr" THEN 1 ELSE 0)
               + countPrTopics(Tail(items), branches, Append(topics, ref))

\* Array.prototype.join("\n") of strings.
RECURSIVE joinLines(_)
joinLines(lines) ==
  IF lines = <<>> THEN ""
  ELSE IF Len(lines) = 1 THEN lines[1]
  ELSE lines[1] \o "\n" \o joinLines(Tail(lines))

\* Lines 295 to 306: the text written to topics.txt, a header of comment
\* lines and one line per topic.
topicsFileText(topics, resolvedPrTopics) ==
  LET header == joinLines(<< "# Auto-generated from GitHub Issue",
                             "# repo: o/r",
                             "# issue: #1",
                             "# required labels (any): early, feature",
                             "# topics: " \o ToString(Len(topics)),
                             "# resolved PR topics: " \o ToString(resolvedPrTopics),
                             "" >>)
  IN header \o joinLines([k \in DOMAIN topics |-> PathName(topics[k])]) \o "\n"

\* String.prototype.split(/\r?\n/)
RECURSIVE splitLines(_)
splitLines(text) ==
  LET ks == {k \in 1..Len(text) : SubSeq(text, k, k) = "\n"}
      k == CHOOSE m \in ks : \A n \in ks : m <= n
      e == IF k > 1 /\ SubSeq(text, k - 1, k - 1) = "\r" THEN k - 2 ELSE k - 1
  IN IF ks = {} THEN <<text>>
     ELSE <<SubSeq(text, 1, e)>> \o splitLines(SubSeq(text, k + 1, Len(text)))

\* String.prototype.trim
RECURSIVE trim(_)
trim(l) ==
  IF l = "" THEN l
  ELSE IF SubSeq(l, 1, 1) \in {" ", "\t", "\r"} THEN trim(SubSeq(l, 2, Len(l)))
  ELSE IF SubSeq(l, Len(l), Len(l)) \in {" ", "\t", "\r"} THEN trim(SubSeq(l, 1, Len(l) - 1))
  ELSE l

\* readTopics of apply-topics on the text of the file: the trimmed lines
\* that are neither empty nor comments.
readTopics(text) ==
  LET lines == splitLines(text)
      trimmed == [k \in DOMAIN lines |-> trim(lines[k])]
  IN SelectSeq(trimmed, LAMBDA l : l # "" /\ ~startsWith(l, "#"))

\* The bullet lines an issue body can hold.
BulletKinds ==
  { Bullet("topic", <<Ref(<<"tA">>)>>),
    Bullet("topic", <<Ref(<<"bundle", "x">>)>>),
    Bullet("topic", <<Token("hash", <<>>, 1)>>),
    Bullet("topic", <<Token("num", <<"2">>, 2)>>),
    Bullet("topic", <<Token("url", <<>>, 3)>>),
    Bullet("topic", <<Token("hash", <<>>, 4)>>),
    Bullet("topic", <<Token("hash", <<>>, 5)>>),
    Bullet("topic", <<Ref(<<"tB">>), Ref(<<"later">>)>>),
    Bullet("topic", <<Token("bad", <<>>, 0)>>),
    Bullet("bundle", <<Ref(<<"bundle", "x">>)>>),
    Bullet("bundle", <<Ref(<<"bundle", "x">>), Ref(<<"tA">>), Ref(<<"tB">>)>>),
    Bullet("bundle", <<Ref(<<"bundle", "x">>), Ref(<<"tB">>)>>),
    Bullet("bundle", <<Ref(<<"tB">>), Ref(<<"tA">>)>>),
    Bullet("bundle", <<Token("num", <<"2">>, 2)>>),
    Bullet("none", <<Ref(<<"tB">>)>>),
    Bullet("topic", <<>>) }

IssueInit ==
  /\ repo = InitRepo(FALSE)
  /\ cfg = [prog |-> "issue", mode |-> "squash", topics |-> <<>>, topicsPath |-> TRUE,
            PUSH |-> FALSE, bundlesFile |-> "present", lines |-> <<>>]
  /\ pc = "parse"
  /\ i = 1
  /\ status = <<>>
  /\ exitCode = -1
  /\ failure = ""
  /\ ops = {}
  /\ pushes = <<>>
  /\ run = 1
  /\ entry = NoEntry
  /\ before = repo
  /\ bs = InitBs
  /\ synth = NoSynth
  /\ procs = {}
  /\ \E bullets \in SeqsUpTo(BulletKinds, MaxBullets), token \in BOOLEAN :
       issue = [NoIssue EXCEPT !.bullets = bullets, !.token = token]
  /\ probe = NoProbe

\* The bullet loop: items and bundle definitions, or the thrown error.
IssueParse ==
  /\ cfg.prog = "issue"
  /\ pc = "parse"
  /\ LET parsed == parseBullets(issue.bullets, <<>>, <<>>)
     IN IF ~parsed.ok
        THEN /\ Exit(1, "IssueInvalid")
             /\ UNCHANGED issue
        ELSE /\ issue' = [issue EXCEPT !.items = parsed.items,
                                       !.bundleDefs = parsed.bundleDefs]
             /\ pc' = "resolve"
             /\ UNCHANGED <<exitCode, failure>>
  /\ UNCHANGED <<repo, cfg, i, status, ops, pushes, run, entry, before, bs, synth, procs, probe>>

\* The PR numbers are resolved to head branches; without a token, or with a
\* PR that cannot be fetched, the program fails.
IssueResolve ==
  /\ cfg.prog = "issue"
  /\ pc = "resolve"
  /\ LET nums == prNumbers(issue.items)
     IN IF nums # {} /\ ~issue.token
        THEN /\ Exit(1, "TokenMissing")
             /\ UNCHANGED issue
        ELSE IF \E n \in nums : n \notin DOMAIN Pulls
        THEN /\ Exit(1, "PullNotFound")
             /\ UNCHANGED issue
        ELSE /\ issue' = [issue EXCEPT !.prToBranch = [n \in nums |-> prToBranch(n)]]
             /\ pc' = "write"
             /\ UNCHANGED <<exitCode, failure>>
  /\ UNCHANGED <<repo, cfg, i, status, ops, pushes, run, entry, before, bs, synth, procs, probe>>

\* The topic list is built and written.
IssueWrite ==
  /\ cfg.prog = "issue"
  /\ pc = "write"
  /\ LET topics == collectTopics(issue.items, issue.prToBranch, <<>>)
         resolvedPrTopics == countPrTopics(issue.items, issue.prToBranch, <<>>)
     IN issue' = [issue EXCEPT !.topics = topics,
                               !.file = topicsFileText(topics, resolvedPrTopics),
                               !.written = TRUE]
  /\ Exit(0, "")
  /\ UNCHANGED <<repo, cfg, i, status, ops, pushes, run, entry, before, bs, synth, procs, probe>>

\* apply-topics reads the file issue-to-topics wrote.
IssueReadBack ==
  /\ cfg.prog = "issue"
  /\ pc = "idle"
  /\ issue.written
  /\ ~issue.readBack
  /\ issue' = [issue EXCEPT !.readItems = readTopics(issue.file), !.readBack = TRUE]
  /\ UNCHANGED <<repo, cfg, pc, i, status, exitCode, failure, ops, pushes, run, entry, before,
                 bs, synth, procs, probe>>

IssueNext ==
  \/ IssueParse
  \/ IssueResolve
  \/ IssueWrite
  \/ IssueReadBack

IssueSpec == IssueInit /\ [][IssueNext]_vars

\* ------------------------- applySquash: the processes of lines 144 to 198
\* run() spawns a git process; the process is in flight until its close
\* event resolves the promise.  A step is one turn of the event loop: the
\* close of a process and what the continuation starts before it awaits.
ProcRecords == {InitRecords[3], InitRecords[4], InitRecords[5]}

ProcInit ==
  /\ repo = InitRepo(FALSE)
  /\ cfg = [prog |-> "apply", mode |-> "squash", topics |-> <<>>, topicsPath |-> TRUE,
            PUSH |-> FALSE, bundlesFile |-> "present", lines |-> <<>>]
  /\ pc = "listCommits"
  /\ i = 1
  /\ status = <<>>
  /\ exitCode = -1
  /\ failure = ""
  /\ ops = {}
  /\ pushes = <<>>
  /\ run = 0
  /\ entry = NoEntry
  /\ before = repo
  /\ bs = InitBs
  /\ procs = {}
  /\ issue = NoIssue
  /\ probe = NoProbe
  /\ \E t \in SynthTopics, rs \in SeqsUpTo(ProcRecords, MaxRecords) :
       synth = [topic |-> t, records |-> rs, message |-> <<>>]

\* listCommits: git rev-list is started and awaited.
ProcListCommits ==
  /\ pc = "listCommits"
  /\ procs' = procs \cup {<<"rev-list", 0>>}
  /\ pc' = "listing"
  /\ UNCHANGED <<repo, cfg, i, status, exitCode, failure, ops, pushes, run, entry, before, bs, synth, issue, probe>>

\* git rev-list closes; commitIds.map calls the async callback for every
\* commit id, and each call runs up to its await, that is, spawns its
\* git show.  Promise.all awaits them together.  Without commits the
\* program goes on to git config user.name.
ProcShowAll ==
  /\ pc = "listing"
  /\ <<"rev-list", 0>> \in procs
  /\ IF synth.records # <<>>
     THEN /\ procs' = (procs \ {<<"rev-list", 0>>})
                         \cup {<<"show", k>> : k \in DOMAIN synth.records}
          /\ pc' = "showing"
     ELSE /\ procs' = (procs \ {<<"rev-list", 0>>}) \cup {<<"config", 1>>}
          /\ pc' = "configName"
  /\ UNCHANGED <<repo, cfg, i, status, exitCode, failure, ops, pushes, run, entry, before, bs, synth, issue, probe>>

\* One git show closes; after the last one Promise.all resolves and git
\* config user.name is started.
ProcShowClose ==
  /\ pc = "showing"
  /\ \E k \in DOMAIN synth.records :
       /\ <<"show", k>> \in procs
       /\ IF procs = {<<"show", k>>}
          THEN /\ procs' = {<<"config", 1>>}
               /\ pc' = "configName"
          ELSE /\ procs' = procs \ {<<"show", k>>}
               /\ pc' = "showing"
  /\ UNCHANGED <<repo, cfg, i, status, exitCode, failure, ops, pushes, run, entry, before, bs, synth, issue, probe>>

\* git config user.name closes; git config user.email is started.
ProcConfigName ==
  /\ pc = "configName"
  /\ procs' = (procs \ {<<"config", 1>>}) \cup {<<"config", 2>>}
  /\ pc' = "configEmail"
  /\ UNCHANGED <<repo, cfg, i, status, exitCode, failure, ops, pushes, run, entry, before, bs, synth, issue, probe>>

\* git config user.email closes; the message is built and git commit is
\* started.
ProcConfigEmail ==
  /\ pc = "configEmail"
  /\ procs' = (procs \ {<<"config", 2>>}) \cup {<<"commit", 0>>}
  /\ pc' = "committing"
  /\ LET commits == [k \in DOMAIN synth.records |-> ShowRecord(synth.records[k])]
     IN synth' = [synth EXCEPT !.message = squashMessage(synth.topic, commits, HeadAuthor)]
  /\ UNCHANGED <<repo, cfg, i, status, exitCode, failure, ops, pushes, run, entry, before, bs, issue, probe>>

\* git commit closes.
ProcCommit ==
  /\ pc = "committing"
  /\ procs' = procs \ {<<"commit", 0>>}
  /\ pc' = "commit"
  /\ UNCHANGED <<repo, cfg, i, status, exitCode, failure, ops, pushes, run, entry, before, bs, synth, issue, probe>>

ProcNext ==
  \/ ProcListCommits
  \/ ProcShowAll
  \/ ProcShowClose
  \/ ProcConfigName
  \/ ProcConfigEmail
  \/ ProcCommit

ProcSpec == ProcInit /\ [][ProcNext]_vars

\* ------------------------------------------------------- rebase-working
\* refs/tags/upstream/<BASE_UPSTREAM_TAG>, <<>> when the option is not set.
BASE_UPSTREAM_TAG_REF(tag) == IF tag = <<>> THEN <<>> ELSE Tags(UpstreamOf(tag))

\* Mutant: the tag's commit is taken without looking at the base reference.
resolveBaseCommitUnchecked(r, tag) ==
  LET branchHead == RevParse(r, BASE_REF)
      tagCommit == r.refs[BASE_UPSTREAM_TAG_REF(tag)]
  IN IF branchHead = NoCommit THEN [ok |-> FALSE, commit |-> NoCommit]
     ELSE IF tag = <<>> THEN [ok |-> TRUE, commit |-> branchHead]
     ELSE IF tagCommit = NoCommit THEN [ok |-> FALSE, commit |-> NoCommit]
     ELSE [ok |-> TRUE, commit |-> tagCommit]

\* resolveBaseCommit: the head of the base reference or, with a tag, the
\* tag's commit when it lies in the history of the base reference; ok is
\* FALSE for a thrown error.
resolveBaseCommit(r, tag) ==
  LET branchHead == RevParse(r, BASE_REF)
      tagCommit == r.refs[BASE_UPSTREAM_TAG_REF(tag)]
  IN IF branchHead = NoCommit THEN [ok |-> FALSE, commit |-> NoCommit]
     ELSE IF tag = <<>> THEN [ok |-> TRUE, commit |-> branchHead]
     ELSE IF tagCommit = NoCommit THEN [ok |-> FALSE, commit |-> NoCommit]
     ELSE IF ~IsAncestor(r, tagCommit, branchHead) THEN [ok |-> FALSE, commit |-> NoCommit]
     ELSE [ok |-> TRUE, commit |-> tagCommit]

RebaseEnsureClean ==
  /\ cfg.prog = "rebase"
  /\ pc = "ensureClean"
  /\ ensureClean("fetch")
  /\ UNCHANGED <<repo, cfg, i, status, ops, pushes, run, entry, before, bs, synth, procs, issue, probe>>

\* git fetch --all --prune --tags
RebaseFetch ==
  /\ cfg.prog = "rebase"
  /\ pc = "fetch"
  /\ ops' = ops \cup {"fetch"}
  /\ pc' = "resolve"
  /\ UNCHANGED <<repo, cfg, i, status, exitCode, failure, pushes, run, entry, before, bs, synth, procs, issue, probe>>

\* const baseInfo = await resolveBaseCommit()
RebaseResolve ==
  /\ cfg.prog = "rebase"
  /\ pc = "resolve"
  /\ LET baseInfo == resolveBaseCommit(repo, cfg.baseUpstreamTag)
     IN IF ~baseInfo.ok
        THEN /\ Exit(1, "GitFailed")
             /\ UNCHANGED bs
        ELSE /\ bs' = [bs EXCEPT !.baseCommit = baseInfo.commit]
             /\ pc' = "reset"
             /\ UNCHANGED <<exitCode, failure>>
  /\ UNCHANGED <<repo, cfg, i, status, ops, pushes, run, entry, before, synth, procs, issue, probe>>

\* The working branch is switched to and reset, or created, at the base.
RebaseReset ==
  /\ cfg.prog = "rebase"
  /\ pc = "reset"
  /\ LET exists == ShowRef(repo, Heads(WORKING_BRANCH))
         sw == GitSwitch(repo, WORKING_BRANCH)
         rs == GitResetHard(sw.r, bs.baseCommit)
         sc == GitSwitchC(repo, WORKING_BRANCH, bs.baseCommit)
     IN IF exists
        THEN IF sw.code # 0
             THEN /\ repo' = sw.r
                  /\ ops' = ops \cup {"switch"}
                  /\ Exit(1, "GitFailed")
             ELSE /\ repo' = rs.r
                  /\ ops' = ops \cup {"switch", "reset"}
                  /\ pc' = "vendor"
                  /\ UNCHANGED <<exitCode, failure>>
        ELSE IF sc.code # 0
             THEN /\ repo' = sc.r
                  /\ ops' = ops \cup {"switch"}
                  /\ Exit(1, "GitFailed")
             ELSE /\ repo' = sc.r
                  /\ ops' = ops \cup {"switch", "create"}
                  /\ pc' = "vendor"
                  /\ UNCHANGED <<exitCode, failure>>
  /\ UNCHANGED <<cfg, i, status, pushes, run, entry, before, bs, synth, procs, issue, probe>>

\* vendorToolRepo: the clone fails, or the tool directory is replaced by the
\* tool repository's files and committed when that changed anything.
RebaseVendor ==
  /\ cfg.prog = "rebase"
  /\ pc = "vendor"
  /\ LET vendored == [repo.index EXCEPT ![pT] = 1]
         committed == NewCommit(repo, <<HeadCommit(repo)>>, vendored)
     IN IF cfg.tool = "cloneFails"
        THEN /\ Exit(1, "VendorFailed")
             /\ UNCHANGED <<repo, ops>>
        ELSE IF cfg.tool = "none" \/ vendored = repo.index
        THEN /\ pc' = "push"
             /\ UNCHANGED <<repo, ops, exitCode, failure>>
        ELSE /\ repo' = committed
             /\ ops' = ops \cup {"commit"}
             /\ pc' = "push"
             /\ UNCHANGED <<exitCode, failure>>
  /\ UNCHANGED <<cfg, i, status, pushes, run, entry, before, bs, synth, procs, issue, probe>>

\* The working branch is pushed when pushing is enabled and a commit was made.
RebasePush ==
  /\ cfg.prog = "rebase"
  /\ pc = "push"
  /\ IF cfg.PUSH /\ "commit" \in ops
     THEN LET ps == GitPush(repo, WORKING_BRANCH)
          IN /\ repo' = ps.r
             /\ pushes' = Append(pushes, <<WORKING_BRANCH, PushForm(repo, WORKING_BRANCH)>>)
             /\ ops' = ops \cup {"push"}
             /\ IF ps.code # 0 THEN Exit(1, "GitFailed") ELSE Exit(0, "")
     ELSE /\ Exit(0, "")
          /\ UNCHANGED <<repo, pushes, ops>>
  /\ UNCHANGED <<cfg, i, status, run, entry, before, bs, synth, procs, issue, probe>>

RebaseCfgs ==
  {[prog |-> "rebase", mode |-> "merge", topics |-> <<>>, topicsPath |-> TRUE,
    PUSH |-> p, bundlesFile |-> "present", lines |-> <<>>,
    baseUpstreamTag |-> tag, tool |-> tool] :
      p \in BOOLEAN, tag \in TagNames \cup {<<>>},
      tool \in {"none", "vendored", "cloneFails"}}

RebaseRepos ==
  {InitRepo(FALSE), InitRepo(TRUE), Detached(InitRepo(FALSE)),
   Advanced(InitRepo(FALSE)), Reworked(InitRepo(FALSE)), Unprepared(InitRepo(FALSE)),
   Unprepared(Advanced(InitRepo(FALSE)))}

RebaseInit ==
  /\ repo \in RebaseRepos
  /\ cfg \in RebaseCfgs
  /\ pc = "idle"
  /\ i = 1
  /\ status = <<>>
  /\ exitCode = -1
  /\ failure = ""
  /\ ops = {}
  /\ pushes = <<>>
  /\ run = 0
  /\ entry = NoEntry
  /\ before = repo
  /\ bs = InitBs
  /\ synth = NoSynth
  /\ procs = {}
  /\ issue = NoIssue
  /\ probe = NoProbe

RebaseNext ==
  \/ Invoke
  \/ RebaseEnsureClean
  \/ RebaseFetch
  \/ RebaseResolve
  \/ RebaseReset
  \/ RebaseVendor
  \/ RebasePush

RebaseSpec == RebaseInit /\ [][RebaseNext]_vars

\* ------------------------------- the allow-list predicate on any path
MaxDepth == 3          \* most segments of a path

\* Names a path segment can have: the allow-listed directories, names that
\* only begin like them, and others.
PathSegments ==
  {".tiramiss", ".tiramiss-x", ".github", "workflows", "workflowsX", "other", "x"}

ProbePaths == SeqsUpTo(PathSegments, MaxDepth) \ {<<>>}

AllowInit ==
  /\ repo = InitRepo(FALSE)
  /\ cfg = [prog |-> "bundle", mode |-> "merge", topics |-> <<>>, topicsPath |-> TRUE,
            PUSH |-> FALSE, bundlesFile |-> "present", lines |-> <<>>]
  /\ pc = "match"
  /\ i = 1
  /\ status = <<>>
  /\ exitCode = -1
  /\ failure = ""
  /\ ops = {}
  /\ pushes = <<>>
  /\ run = 0
  /\ entry = NoEntry
  /\ before = repo
  /\ bs = InitBs
  /\ synth = NoSynth
  /\ procs = {}
  /\ issue = NoIssue
  /\ \E segments \in ProbePaths :
       probe = [segments |-> segments, path |-> PathName(segments), matched |-> "unknown"]

\* keepOurs = unmerged.filter(shouldKeepOursOnMergeConflict), on one path.
AllowMatch ==
  /\ pc = "match"
  /\ pc' = "done"
  /\ probe' = [probe EXCEPT !.matched =
                 IF shouldKeepOursOnMergeConflict(probe.path) THEN "yes" ELSE "no"]
  /\ UNCHANGED <<repo, cfg, i, status, exitCode, failure, ops, pushes, run, entry, before, bs, synth, procs, issue>>

AllowNext == AllowMatch

AllowSpec == AllowInit /\ [][AllowNext]_vars


\* ------------------------------------------------------------------ claims
\* Same commit graph, refs, HEAD, index and operation in progress.
RepoSame(a, b) ==
  /\ a.commits = b.commits
  /\ a.refs = b.refs
  /\ a.head = b.head
  /\ a.index = b.index
  /\ a.unmerged = b.unmerged
  /\ a.op = b.op

\* The run has ended and nobody touched the repository since.
Ended == pc = "idle" /\ run > 0

\* C1: in apply-topics and in bundle-topics a working tree with uncommitted
\* changes at entry makes the run fail with a non-zero exit before any other
\* action: no switch, create, reset, fetch, merge, cherry-pick, commit or
\* push is started and the repository is as it was at entry.
C1_DirtyEntryAbortsFirst ==
  (run > 0 /\ entry.dirty /\ pc # "ensureClean") =>
     /\ pc = "idle"
     /\ exitCode = 1
     /\ failure = "DirtyWorkingTree"
     /\ ops = {}
     /\ pushes = <<>>
     /\ (~entry.resolved => RepoSame(repo, before))

C1_Witness ==
  /\ cfg.prog = "bundle"
  /\ cfg.lines # <<>>
  /\ entry.dirty
  /\ Ended
  /\ exitCode = 1

\* C2: after an apply-topics run in mode merge has completed successfully,
\* a second run with the same topic list, started from the HEAD the first
\* run left, skips every topic and creates no commit: the integration head
\* is the same commit before and after the second run.
C2_MergeIdempotent ==
  (cfg.prog = "apply" /\ cfg.mode = "merge" /\ run >= 2 /\ entry.prevExit = 0) =>
     /\ Len(repo.commits) = entry.ncommits
     /\ HeadCommit(repo) = entry.head
     /\ failure = ""
     /\ \A k \in 1..(i - 1) : k <= Len(status) => status[k] = "Skipped"
     /\ (pc = "idle" => exitCode = 0 /\ i = Len(cfg.topics) + 1)

C2_Witness ==
  /\ cfg.prog = "apply"
  /\ cfg.mode = "merge"
  /\ run = 2
  /\ entry.prevExit = 0
  /\ Ended
  /\ exitCode = 0
  /\ Len(cfg.topics) = 3
  /\ entry.ncommits = Len(InitCommits) + 2
  /\ \A k \in 1..3 : status[k] = "Skipped"

\* C3: after an apply-topics run in mode squash has applied every topic, a
\* second run with the same topic list against the advanced head performs
\* zero mutations: every topic is Skipped, no commit is created, nothing is
\* left staged and the run succeeds.
C3_SquashIdempotent ==
  (cfg.prog = "apply" /\ cfg.mode = "squash" /\ run >= 2 /\ entry.prevExit = 0
     /\ pc = "idle") =>
     /\ exitCode = 0
     /\ Len(repo.commits) = entry.ncommits
     /\ HeadCommit(repo) = entry.head
     /\ repo.index = TreeOf(repo, HeadCommit(repo))
     /\ \A k \in DOMAIN status : status[k] = "Skipped"

\* C4: after an apply-topics run in mode pick has completed with no
\* conflict, a second run with the same topic list against the advanced head
\* performs zero mutations: no commit is cherry-picked a second time and the
\* run succeeds.
C4_PickIdempotent ==
  (cfg.prog = "apply" /\ cfg.mode = "pick" /\ run >= 2 /\ entry.prevExit = 0
     /\ pc = "idle") =>
     /\ exitCode = 0
     /\ "cherry-pick" \notin ops
     /\ Len(repo.commits) = entry.ncommits
     /\ HeadCommit(repo) = entry.head
     /\ repo.op = "none"

\* The second parents of the merge commits made on top of the initial graph.
MergesOf(r, t) ==
  {c \in (Len(InitCommits) + 1)..Len(r.commits) :
     Len(r.commits[c].parents) = 2 /\ r.commits[c].parents[2] = t}

\* C5: in mode merge, when topic k conflicts, the operator completes that
\* merge by hand and the command is re-invoked from the integration branch,
\* topics 1..k are all Skipped and none gets a second merge commit; a rerun
\* that succeeds has every topic's tip in the history of the integration
\* head, with one new merge commit per topic after k that was not yet in it.
C5_MergeResume ==
  (cfg.prog = "apply" /\ cfg.mode = "merge" /\ run >= 2 /\ entry.resumed
     /\ entry.prevFailure = "ApplyConflict" /\ pc = "idle" /\ ~entry.resolved) =>
     /\ i > entry.prevI
     /\ \A k \in 1..entry.prevI : status[k] = "Skipped"
     /\ \A k \in 1..(i - 1) : k <= Len(cfg.topics) =>
          LET t == RevParse(repo, resolveTopicRef(repo, cfg.topics[k]))
          IN /\ IsAncestor(repo, t, HeadCommit(repo))
             /\ Cardinality(MergesOf(repo, t)) <= 1
             /\ (status[k] = "Applied" => Cardinality(MergesOf(repo, t)) = 1)
     /\ Len(repo.commits) - entry.ncommits
          = Cardinality({k \in 1..(i - 1) : k <= Len(status) /\ status[k] = "Applied"})
     /\ (exitCode = 0 => i = Len(cfg.topics) + 1)

C5_Witness ==
  /\ cfg.prog = "apply"
  /\ cfg.mode = "merge"
  /\ run = 2
  /\ entry.resumed
  /\ entry.prevFailure = "ApplyConflict"
  /\ entry.prevI = 2
  /\ Ended
  /\ exitCode = 0
  /\ status = <<"Skipped", "Skipped", "Applied">>

\* C6: for each of the three strategies, when applying topic k fails with a
\* conflict the run halts at once: no topic after k is resolved or applied,
\* the commits created for topics 1..k-1 stay on the integration branch, the
\* operation in progress is neither aborted nor rolled back, and the exit
\* code is non-zero.
C6_AbortOnConflict ==
  (cfg.prog = "apply" /\ run > 0) =>
     /\ \A k \in DOMAIN status : status[k] = "Conflict" =>
          /\ k = i
          /\ pc = "idle"
          /\ exitCode = 1
          /\ failure = "ApplyConflict"
     /\ (failure = "ApplyConflict" /\ ~entry.resolved) =>
          /\ pc = "idle"
          /\ exitCode = 1
          /\ status[i] = "Conflict"
          /\ \A k \in 1..(i - 1) : status[k] \in {"Skipped", "Applied"}
          /\ \A k \in (i + 1)..Len(status) : status[k] = "Pending"
          /\ pushes = <<>>
          /\ repo.unmerged # {} \/ repo.op # "none"
          /\ repo.head.branch = INTEGRATE_BRANCH
          /\ SubSeq(repo.commits, 1, Len(before.commits)) = before.commits
          /\ IsAncestor(repo, HeadCommit(before), HeadCommit(repo))
          /\ (cfg.mode # "pick" => HeadCommit(repo) = HeadCommit(before))

C6_Witness ==
  /\ cfg.prog = "apply"
  /\ cfg.mode = "squash"
  /\ failure = "ApplyConflict"
  /\ ~entry.resolved
  /\ i = 2
  /\ Len(cfg.topics) = 3
  /\ status = <<"Applied", "Conflict", "Pending">>
  /\ repo.unmerged # {}

\* Failures that end an apply-topics run at a topic.
TopicFailures ==
  {"RefNotFound", "CommonAncestorUnavailable", "ApplyConflict", "CommitFailed"}

\* C7: in apply-topics the integration branch is pushed at most once per
\* run, only after every topic of the list has ended Skipped or Applied, and
\* never when the push toggle is disabled; a run that fails on a topic
\* performs no push.
C7_PushOnceAfterAllTopics ==
  cfg.prog = "apply" =>
     /\ Len(pushes) <= 1
     /\ ("push" \in ops <=> pushes # <<>>)
     /\ pushes # <<>> =>
          /\ cfg.PUSH
          /\ pushes[1][1] = INTEGRATE_BRANCH
          /\ i = Len(cfg.topics) + 1
          /\ \A k \in DOMAIN status : status[k] \in {"Skipped", "Applied"}
          /\ failure \notin TopicFailures
     /\ (pc = "idle" /\ exitCode = 0 /\ cfg.PUSH /\ cfg.topicsPath) => Len(pushes) = 1

C7_Witness ==
  /\ cfg.prog = "apply"
  /\ Ended
  /\ exitCode = 0
  /\ Len(pushes) = 1
  /\ Len(cfg.topics) = 3
  /\ \E k \in 1..3 : status[k] = "Applied"
  /\ \E k \in 1..3 : status[k] = "Skipped"

\* The branch a run publishes at this point: the integration branch, or the
\* bundle whose topics have all been merged.
Publishing ==
  IF cfg.prog = "apply" THEN INTEGRATE_BRANCH ELSE bs.bundles[bs.bi].name

\* C8: every push of a run publishes the integration branch (apply-topics)
\* or the bundle just built (bundle-topics) with exactly one of the two
\* forms: with upstream tracking and without force when no remote branch
\* origin/<name> exists, with a force update when it exists; afterwards
\* origin/<name> is the branch's commit.
C8_PushPolicy ==
  [][Len(pushes') > Len(pushes) =>
       LET e == pushes'[Len(pushes')]
       IN /\ Len(pushes') = Len(pushes) + 1
          /\ cfg.PUSH
          /\ e[1] = Publishing
          /\ e[2] \in {"-u", "--force"}
          /\ (e[2] = "-u") <=> ~ShowRef(repo, Remotes(OriginOf(e[1])))
          /\ (e[2] = "--force") <=> ShowRef(repo, Remotes(OriginOf(e[1])))
          /\ repo'.refs[Remotes(OriginOf(e[1]))] = repo.refs[Heads(e[1])]
          /\ repo'.refs[Heads(e[1])] = repo.refs[Heads(e[1])]]_vars

C8_Witness ==
  /\ cfg.prog = "bundle"
  /\ Len(pushes) = 2
  /\ pushes[1] = <<by, "--force">>
  /\ pushes[2] = <<bx, "-u">>

\* Names a resolver can be asked for.
ResolverInputs ==
  TopicNames \cup BundleNames \cup {INTEGRATE_BRANCH, WORKING_BRANCH}
  \cup {OriginOf(n) : n \in TopicNames} \cup {UpstreamOf(n) : n \in TopicNames}

\* C9: for a topic name t the resolver returns t if t resolves to a commit,
\* otherwise origin/t if that resolves, otherwise upstream/t if that
\* resolves, otherwise it fails; the returned name always resolves to a
\* commit, and the resolvers of apply-topics and bundle-topics agree on
\* every input.  A step that ends in the resolver leaves the repository as
\* it found it.
C9_RefResolver ==
  /\ \A t \in ResolverInputs :
       LET res == resolveTopicRef(repo, t)
           loc == RevParse(repo, t) # NoCommit
           org == RevParse(repo, OriginOf(t)) # NoCommit
           ups == RevParse(repo, UpstreamOf(t)) # NoCommit
       IN /\ loc => res = t
          /\ (~loc /\ org) => res = OriginOf(t)
          /\ (~loc /\ ~org /\ ups) => res = UpstreamOf(t)
          /\ (~loc /\ ~org /\ ~ups) <=> res = <<>>
          /\ res # <<>> => RevParse(repo, res) # NoCommit
          /\ resolveRef(repo, t) = res
  /\ failure = "RefNotFound" => RepoSame(repo, before)

C9_Witness ==
  /\ cfg.prog = "apply"
  /\ cfg.mode = "merge"
  /\ cfg.topics = << <<"tB">> >>
  /\ i = 2
  /\ status = <<"Applied">>
  /\ resolveTopicRef(repo, <<"tB">>) = <<"origin", "tB">>
  /\ RevParse(repo, <<"upstream", "tB">>) # NoCommit
  /\ repo.commits[HeadCommit(repo)].parents[2] = RevParse(repo, <<"origin", "tB">>)

\* C10: when topic k of the list resolves under none of the three
\* candidates, the run aborts with a non-zero exit before any mutation for
\* topic k: the repository is as topics 1..k-1 left it, topic k and all
\* later topics stay Pending and nothing is pushed.  A run that succeeds had
\* every topic of its list resolved.
C10_RefNotFound ==
  cfg.prog = "apply" =>
     /\ (failure = "RefNotFound") =>
          /\ pc = "idle"
          /\ exitCode = 1
          /\ resolveTopicRef(repo, cfg.topics[i]) = <<>>
          /\ RepoSame(repo, before)
          /\ \A k \in i..Len(status) : status[k] = "Pending"
          /\ \A k \in 1..(i - 1) : status[k] \in {"Skipped", "Applied"}
          /\ pushes = <<>>
          /\ "push" \notin ops
     /\ \A k \in 1..(i - 1) : k <= Len(cfg.topics) =>
          resolveTopicRef(repo, cfg.topics[k]) # <<>>

C10_Witness ==
  /\ cfg.prog = "apply"
  /\ failure = "RefNotFound"
  /\ cfg.PUSH
  /\ i = 2
  /\ Len(cfg.topics) = 3
  /\ status = <<"Applied", "Pending", "Pending">>
  /\ Len(repo.commits) > Len(InitCommits)

\* A step of the topic loop of apply-topics that takes up topic i.
TopicStep ==
  /\ cfg.prog = "apply"
  /\ pc = "topics"
  /\ i <= Len(cfg.topics)
  /\ before' = repo
  /\ resolveTopicRef(repo, cfg.topics[i]) # <<>>

\* The commit of topic i and its common ancestor with HEAD, before the step.
TopicTip == RevParse(repo, resolveTopicRef(repo, cfg.topics[i]))
TopicCommon == GitMergeBase(repo, HeadCommit(repo), TopicTip)

\* C11: for every strategy, a topic list in which a topic occurs twice is
\* processed without failure at the second occurrence: the second occurrence
\* ends Skipped and adds no commit.
C11_DuplicateTolerance ==
  (cfg.prog = "apply" /\ run = 1 /\ ~entry.resolved) =>
     \A k \in DOMAIN cfg.topics :
        (\E j \in 1..(k - 1) : cfg.topics[j] = cfg.topics[k]) =>
           /\ ~(pc = "idle" /\ i = k /\ exitCode # 0)
           /\ (i > k => status[k] = "Skipped")

\* C12: under strategy squash, a topic whose tree at its tip equals the tree
\* at the common ancestor of HEAD and the topic is Skipped, whether or not
\* its tip is an ancestor of HEAD: nothing is staged, no commit is created,
\* HEAD and the index stay, and the loop goes on to the next topic.
C12_SkipOnEmptyDiff ==
  [][(TopicStep /\ cfg.mode = "squash" /\ TopicCommon # NoCommit
        /\ TreeOf(repo, TopicTip) = TreeOf(repo, TopicCommon)) =>
       /\ status'[i] = "Skipped"
       /\ RepoSame(repo', repo)
       /\ ops' = ops
       /\ i' = i + 1
       /\ pc' = "topics"]_vars

C12_Witness ==
  /\ cfg.prog = "apply"
  /\ cfg.mode = "squash"
  /\ run = 1
  /\ cfg.topics = << <<"tA">>, <<"tZ">> >>
  /\ i = 3
  /\ status = <<"Applied", "Skipped">>
  /\ ~IsAncestor(repo, RevParse(repo, <<"upstream", "tZ">>), HeadCommit(repo))
  /\ Len(repo.commits) = Len(InitCommits) + 1

\* C13: a topic Applied under strategy squash advances the integration head
\* by exactly one new commit with a single parent, the previous head; its
\* tree takes the topic's content on every path the topic changed since the
\* common ancestor and the previous head's content on every other path.
C13_SquashApplication ==
  [][(TopicStep /\ cfg.mode = "squash" /\ status'[i] = "Applied") =>
       LET n == Len(repo.commits) + 1
       IN /\ Len(repo'.commits) = n
          /\ SubSeq(repo'.commits, 1, n - 1) = repo.commits
          /\ HeadCommit(repo') = n
          /\ repo'.head = repo.head
          /\ repo'.commits[n].parents = <<HeadCommit(repo)>>
          /\ \A p \in Paths :
               repo'.commits[n].tree[p] =
                 IF TreeOf(repo, TopicTip)[p] # TreeOf(repo, TopicCommon)[p]
                 THEN TreeOf(repo, TopicTip)[p]
                 ELSE TreeOf(repo, HeadCommit(repo))[p]
          /\ repo'.index = repo'.commits[n].tree
          /\ repo'.unmerged = {}
          /\ repo'.op = "none"]_vars

C13_Witness ==
  /\ cfg.prog = "apply"
  /\ cfg.mode = "squash"
  /\ run = 1
  /\ cfg.topics = << <<"tA">> >>
  /\ i = 2
  /\ status = <<"Applied">>
  /\ Len(repo.commits) = Len(InitCommits) + 1
  /\ repo.commits[HeadCommit(repo)] = Commit(<<2>>, Tree(1, 1, 1))

\* The lines of a text.
RECURSIVE SplitLines(_)
SplitLines(t) ==
  IF t = <<>> THEN << <<>> >>
  ELSE LET rest == SplitLines(Tail(t))
           p == Head(t)
       IN IF p.s = "\n" THEN [k \in 1..p.n |-> <<>>] \o rest
          ELSE << <<p>> \o rest[1] >> \o Tail(rest)

\* C14: the first line of the squash commit message is the squash prefix
\* followed by the topic's label, the last path segment of the topic's
\* resolved name (feature-a for origin/feature-a).
C14_SquashTitle ==
  synth.message # <<>> =>
     SplitLines(synth.message)[1]
       = Lit("squash: " \o synth.topic[Len(synth.topic)])

\* C15: whatever the commits of the range are, the message passed to the
\* commit is at most 65536 bytes long in UTF-8.
C15_MessageBudget ==
  pc = "commit" => ByteLength(synth.message) <= GIT_MAX_COMMIT_MESSAGE_LENGTH

\* The Co-authored-by lines of a message; a line of ASCII text is one piece.
CoAuthorLines(t) ==
  SelectSeq(t, LAMBDA p : /\ p.w = 1
                          /\ Len(p.s) >= 16
                          /\ SubSeq(p.s, 1, 16) = "Co-authored-by: ")

\* The author of commit k of the range, as "Name <email>".
AuthorOf(k) ==
  Concat(<<synth.records[k].an, Lit(" <"), synth.records[k].ae, Lit(">")>>)

\* The commits whose author gets a line: not the committer, not the bot, and
\* no earlier commit of the same author.
Credited ==
  SelectSeq([k \in DOMAIN synth.records |-> k],
            LAMBDA k : /\ AuthorOf(k) # Lit("Dev <dev@example.com>")
                       /\ AuthorOf(k) # Lit("Tiramiss <tiramiss@users.noreply.github.com>")
                       /\ \A j \in 1..(k - 1) : AuthorOf(j) # AuthorOf(k))

\* C16: the message holds one Co-authored-by line per distinct author of
\* the commits, in order of first appearance, none for the committer's own
\* identity and none for the bot; without any co-author a message that was
\* not truncated ends with the footer line.
C16_CoAuthors ==
  pc = "commit" =>
     /\ CoAuthorLines(synth.message)
          = [m \in DOMAIN Credited |->
               Cat(Lit("Co-authored-by: "), AuthorOf(Credited[m]))[1]]
     /\ (Credited = <<>>
           /\ \A k \in DOMAIN synth.records :
                \A l \in DOMAIN synth.records[k].message :
                   ByteLength(synth.records[k].message[l]) < 100) =>
          <<synth.message[Len(synth.message)]>>
            = Concat(<<Lit("Squashed from '"), NameText(synth.topic), Lit("'")>>)

C16_Witness ==
  /\ pc = "commit"
  /\ Len(synth.records) = 3
  /\ AuthorOf(1) = AuthorOf(3)
  /\ AuthorOf(2) = Lit("Bob <bob@example.com>")
  /\ CoAuthorLines(synth.message)
       = Lit("Co-authored-by: Alice <alice@example.com>")
         \o Lit("Co-authored-by: Bob <bob@example.com>")

\* A step of the topic loop of rebuildBundle whose merge of topic i fails.
BundleMergeFails ==
  /\ cfg.prog = "bundle"
  /\ pc = "btopics"
  /\ i <= Len(bs.bundles[bs.bi].topics)
  /\ before' = repo
  /\ resolveRef(repo, bs.bundles[bs.bi].topics[i]) # <<>>
  /\ LET t == RevParse(repo, resolveRef(repo, bs.bundles[bs.bi].topics[i]))
     IN /\ ~IsAncestor(repo, t, HeadCommit(repo))
        /\ GitMergeNoFF(repo, t).code # 0

\* The repository the failed merge leaves to the resolver.
AfterFailedMerge ==
  GitMergeNoFF(repo, RevParse(repo, resolveRef(repo, bs.bundles[bs.bi].topics[i]))).r

\* C17: the resolver concludes the merge with exactly one new commit if and
\* only if a merge is in progress, at least one path is unmerged and every
\* unmerged path is allow-listed; in every other case it creates no commit
\* and the merge stays in progress.  It never commits with a path unmerged.
C17_AllowListClosure ==
  [][BundleMergeFails =>
       LET pre == AfterFailedMerge
           confined == /\ pre.op = "merge"
                       /\ pre.unmerged # {}
                       /\ \A p \in pre.unmerged : shouldKeepOursOnMergeConflict(PathName(p))
       IN /\ confined => /\ Len(repo'.commits) = Len(pre.commits) + 1
                         /\ repo'.op = "none"
                         /\ repo'.unmerged = {}
          /\ ~confined => /\ repo'.commits = pre.commits
                          /\ repo'.op = pre.op
          /\ repo'.unmerged # {} => repo'.commits = pre.commits]_vars

\* The bundles of the run that carry the name n.
LinesOf(n) == {k \in DOMAIN bs.bundles : bs.bundles[k].name = n}

\* The commits a rebuilt bundle n may hold: the history of the base commit,
\* the histories of its listed topics and the commits made in this run.
RebuiltFrom(n) ==
  Ancestors(repo, bs.baseCommit)
  \cup UNION {UNION {Ancestors(repo, RevParse(repo, resolveRef(repo, bs.bundles[k].topics[j]))) :
                       j \in DOMAIN bs.bundles[k].topics} :
                k \in LinesOf(n)}
  \cup ((entry.ncommits + 1)..Len(repo.commits))

\* C18: after a successful bundle-topics run every bundle branch holds only
\* the history of the base commit, the histories of its listed topics and
\* merge commits made in this run, whatever the branch held before.
C18_BundleRebuilt ==
  (cfg.prog = "bundle" /\ Ended /\ exitCode = 0) =>
     \A k \in DOMAIN bs.bundles :
        LET n == bs.bundles[k].name
            tip == repo.refs[Heads(n)]
        IN /\ tip # NoCommit
           /\ IsAncestor(repo, bs.baseCommit, tip)
           /\ Ancestors(repo, tip) \subseteq RebuiltFrom(n)
           /\ \A c \in Ancestors(repo, tip) :
                c > entry.ncommits => Len(repo.commits[c].parents) = 2

C18_Witness ==
  /\ cfg.prog = "bundle"
  /\ run = 1
  /\ Ended
  /\ exitCode = 0
  /\ Len(bs.bundles) = 2
  /\ bs.bundles[1].name = by
  /\ InitRefs[Heads(by)] = 5
  /\ ~IsAncestor(repo, 5, repo.refs[Heads(by)])
  /\ repo.refs[Heads(by)] > Len(InitCommits)

\* C19: when the merge of a topic into a bundle fails and the resolver does
\* not conclude it, also when a git step of the resolver fails, the run ends
\* non-zero with the error that names the bundle and the topic; no later
\* topic and no later bundle is processed and the bundle is not pushed.
C19_BundleAbort ==
  [][(BundleMergeFails /\ Len(repo'.commits) = Len(repo.commits)) =>
       /\ pc' = "idle"
       /\ exitCode' = 1
       /\ failure' = "ApplyConflict"
       /\ status'[i] = "Conflict"
       /\ i' = i
       /\ bs'.bi = bs.bi
       /\ bs'.bundles = bs.bundles
       /\ pushes' = pushes]_vars

\* C20: a bundle list in which any definition has no topic, lists its own
\* name or lists a topic twice makes bundle-topics fail non-zero when the
\* list is loaded: nothing is fetched and no branch is created or reset,
\* also when valid definitions come first.  Every bundle that is composed
\* has a duplicate-free topic list without the bundle's own name.
C20_BundleValidation ==
  (cfg.prog = "bundle" /\ run > 0) =>
     /\ (/\ cfg.bundlesFile = "present"
         /\ ~entry.dirty
         /\ \E k \in DOMAIN cfg.lines :
              LET name == cfg.lines[k][1]
                  topics == [j \in 1..(Len(cfg.lines[k]) - 1) |-> cfg.lines[k][j + 1]]
              IN \/ topics = <<>>
                 \/ \E j \in DOMAIN topics : topics[j] = name
                 \/ Cardinality({topics[j] : j \in DOMAIN topics}) < Len(topics)) =>
          /\ pc \in {"ensureClean", "init", "idle"}
          /\ ops = {}
          /\ RepoSame(repo, before)
          /\ (pc = "idle" => exitCode = 1 /\ failure = "BundleInvalid")
     /\ pc \in {"fetch", "bundle", "btopics"} =>
          \A k \in DOMAIN bs.bundles :
             LET b == bs.bundles[k]
             IN /\ b.topics # <<>>
                /\ \A j \in DOMAIN b.topics : b.topics[j] # b.name
                /\ \A j, l \in DOMAIN b.topics : j # l => b.topics[j] # b.topics[l]

C20_Witness ==
  /\ cfg.prog = "bundle"
  /\ cfg.lines = << <<bx, <<"tA">>>>, <<by, <<"tA">>, by>> >>
  /\ Ended
  /\ exitCode = 1
  /\ failure = "BundleInvalid"
  /\ repo.refs[Heads(bx)] = NoCommit
  /\ repo.refs[Heads(by)] = 5

\* C21: at every point of a run at most one external git process is in
\* flight: each process has closed before the next one is started, also while
\* the commit records for the squash message are collected.
C21_Sequential == Cardinality(procs) <= 1

\* The topic loop of main on a list, from repository r: the outcome of the
\* last topic processed.
RECURSIVE ApplyInOrder(_, _)
ApplyInOrder(r, ts) ==
  IF ts = <<>> THEN Out(r, "Applied", "", {})
  ELSE LET topic == resolveTopicRef(r, ts[1])
           o == applyTopic(r, topic)
       IN IF topic = <<>> THEN Out(r, "Pending", "RefNotFound", {})
          ELSE IF o.fail # "" \/ Len(ts) = 1 THEN o
          ELSE ApplyInOrder(o.r, Tail(ts))

\* The paths whose content differs between two commits.
Changes(r, from, to) == {p \in Paths : TreeOf(r, to)[p] # TreeOf(r, from)[p]}

\* Topics a and b both branch from the base reference's commit, each changes
\* some path, and the paths changed by a, by b and by the working branch
\* since the base are pairwise disjoint.
DisjointFromBase(r, a, b) ==
  LET base == RevParse(r, BASE_REF)
      head == HeadCommit(r)
      ta == RevParse(r, resolveTopicRef(r, a))
      tb == RevParse(r, resolveTopicRef(r, b))
  IN /\ resolveTopicRef(r, a) # <<>>
     /\ resolveTopicRef(r, b) # <<>>
     /\ base # NoCommit
     /\ GitMergeBase(r, ta, head) = base
     /\ GitMergeBase(r, tb, head) = base
     /\ GitMergeBase(r, ta, tb) = base
     /\ Changes(r, base, ta) # {}
     /\ Changes(r, base, tb) # {}
     /\ Changes(r, base, ta) \cap Changes(r, base, tb) = {}
     /\ Changes(r, base, ta) \cap Changes(r, base, head) = {}
     /\ Changes(r, base, tb) \cap Changes(r, base, head) = {}

\* The commits an outcome added to the repository, in the order made.
AddedBy(o) == SubSeq(o.r.commits, Len(repo.commits) + 1, Len(o.r.commits))

\* C22: for two topics A and B that branch from the base and touch disjoint
\* paths, applying [A, B] and applying [B, A] with the same strategy both
\* succeed and leave the same tree at the integration head, but the commits
\* made differ: the topics' changes enter the first-parent chain in the
\* order of the list.
C22_OrderSensitivity ==
  (/\ cfg.prog = "apply"
   /\ pc = "topics"
   /\ i = 1
   /\ Len(cfg.topics) = 2
   /\ DisjointFromBase(repo, cfg.topics[1], cfg.topics[2])) =>
     LET ab == ApplyInOrder(repo, cfg.topics)
         ba == ApplyInOrder(repo, <<cfg.topics[2], cfg.topics[1]>>)
     IN /\ ab.fail = ""
        /\ ba.fail = ""
        /\ ab.st = "Applied"
        /\ ba.st = "Applied"
        /\ TreeOf(ab.r, HeadCommit(ab.r)) = TreeOf(ba.r, HeadCommit(ba.r))
        /\ ab.r.index = ba.r.index
        /\ Len(AddedBy(ab)) = Len(AddedBy(ba))
        /\ Len(AddedBy(ab)) >= 2
        /\ [k \in DOMAIN AddedBy(ab) |-> AddedBy(ab)[k].tree]
             # [k \in DOMAIN AddedBy(ba) |-> AddedBy(ba)[k].tree]
        /\ ab.r.commits # ba.r.commits

C22_Witness ==
  /\ cfg.prog = "apply"
  /\ cfg.mode = "pick"
  /\ cfg.topics = << <<"tB">>, <<"tS">> >>
  /\ run = 1
  /\ Ended
  /\ exitCode = 0
  /\ status = <<"Applied", "Applied">>
  /\ DisjointFromBase([repo EXCEPT !.refs[Heads(INTEGRATE_BRANCH)] = entry.head],
                      <<"tB">>, <<"tS">>)
  /\ TreeOf(repo, HeadCommit(repo)) = Tree(1, 2, 1)

\* The topic a bullet line stands for, <<>> when it stands for none: the
\* single branch name of a topic: bullet, the head branch of the single PR of
\* a topic: bullet when that PR has a required label, the first name of a
\* bundle: bullet.
TopicOfBullet(b) ==
  IF b.tokens = <<>> THEN <<>>
  ELSE IF b.prefix = "bundle" THEN b.tokens[1].name
  ELSE IF b.prefix = "topic" /\ Len(b.tokens) = 1
  THEN IF b.tokens[1].form = "ref" THEN b.tokens[1].name
       ELSE IF /\ b.tokens[1].number \in DOMAIN Pulls
               /\ \E l \in requiredLabels : l \in Pulls[b.tokens[1].number].labels
            THEN Pulls[b.tokens[1].number].head
            ELSE <<>>
  ELSE <<>>

\* The first bullet line that stands for topic t; 0 when there is none.
FirstBullet(t) ==
  LET js == {j \in DOMAIN issue.bullets : TopicOfBullet(issue.bullets[j]) = t}
  IN IF js = {} THEN 0 ELSE CHOOSE j \in js : \A k \in js : j <= k

\* C23: the topic list issue-to-topics writes holds no topic twice, every
\* topic of it comes from a topic: or bundle: bullet (directly, or as the head
\* branch of a PR with a required label), and the topics stand in the order of
\* their first occurrence in the issue body.
C23_TopicList ==
  (cfg.prog = "issue" /\ issue.written) =>
     /\ \A k, l \in DOMAIN issue.topics : k # l => issue.topics[k] # issue.topics[l]
     /\ \A k \in DOMAIN issue.topics :
          /\ issue.topics[k] # <<>>
          /\ FirstBullet(issue.topics[k]) # 0
     /\ \A k, l \in DOMAIN issue.topics :
          k < l => FirstBullet(issue.topics[k]) < FirstBullet(issue.topics[l])
     /\ \A j \in DOMAIN issue.bullets :
          TopicOfBullet(issue.bullets[j]) # <<>> =>
             \E k \in DOMAIN issue.topics : issue.topics[k] = TopicOfBullet(issue.bullets[j])

C23_Witness ==
  /\ cfg.prog = "issue"
  /\ issue.written
  /\ exitCode = 0
  /\ issue.bullets = << Bullet("topic", <<Token("url", <<>>, 3)>>),
                        Bullet("bundle", <<Ref(<<"bundle", "x">>), Ref(<<"tB">>)>>),
                        Bullet("topic", <<Ref(<<"tA">>)>>) >>
  /\ issue.topics = << <<"tA">>, <<"bundle", "x">> >>

\* A bundle-topics run that read a bundle list has ended and the operator has
\* not touched the repository since.
BundleEnded ==
  /\ cfg.prog = "bundle"
  /\ cfg.bundlesFile = "present"
  /\ Ended
  /\ ~entry.resolved

\* HEAD is where the run found it.
BackAtEntry ==
  /\ repo.head.branch = entry.branch
  /\ HeadCommit(repo) = entry.head

\* The run ended in the merge of topic i of bundle bs.bi.
BundleMergeFailed ==
  /\ exitCode = 1
  /\ bs.bi \in DOMAIN bs.bundles
  /\ i \in DOMAIN status
  /\ status[i] = "Conflict"

\* C24 as stated: after a successful bundle-topics run HEAD is on the branch
\* checked out at entry (detached at the entry commit when HEAD was
\* detached); after a failed bundle merge HEAD stays on the failing bundle's
\* branch with the merge still in progress.
C24_ReturnOnSuccessOnly ==
  BundleEnded =>
     /\ exitCode = 0 => BackAtEntry
     /\ BundleMergeFailed => /\ repo.head.branch = bs.bundles[bs.bi].name
                             /\ repo.op = "merge"

\* C24 amended: after a failed bundle merge HEAD stays on the failing
\* bundle's branch; the merge is still in progress when it stopped on
\* conflicting paths, and no merge is in progress when git refused to start
\* it because the histories are unrelated.
C24_ReturnOnSuccessOnlyAmended ==
  BundleEnded =>
     /\ exitCode = 0 => BackAtEntry
     /\ BundleMergeFailed =>
          LET t == RevParse(before, resolveRef(before, bs.bundles[bs.bi].topics[i]))
              related == GitMergeBase(before, HeadCommit(before), t) # NoCommit
          IN /\ repo.head.branch = bs.bundles[bs.bi].name
             /\ related => repo.op = "merge" /\ repo.opHead = t /\ repo.unmerged # {}
             /\ ~related => repo.op = "none" /\ RepoSame(repo, before)

C24_Witness ==
  /\ BundleEnded
  /\ BundleMergeFailed
  /\ entry.branch = <<>>
  /\ entry.head = 2
  /\ repo.head.branch = by
  /\ repo.op = "merge"
  /\ repo.unmerged = {pB}

TitleLine == Cat(Lit("squash: "), NameText(synth.topic))
FooterLine == Concat(<<Lit("Squashed from '"), NameText(synth.topic), Lit("'")>>)

\* The full message of commit k of the range, all its lines.
FullMessage(k) == Join(synth.records[k].message, NL(1))

\* The full messages of the commits of the range, oldest first, joined with
\* the separator line and trimmed.
FullBody ==
  Trim(Join([k \in DOMAIN synth.records |-> FullMessage(k)],
            Concat(<<NL(2), Lit("---"), NL(2)>>)))

\* Every commit of the range is small: the message built from the commits
\* is far below the limit.
ShortLines ==
  \A k \in DOMAIN synth.records :
     /\ ByteLength(synth.records[k].an) < 100
     /\ ByteLength(synth.records[k].ae) < 100
     /\ \A l \in DOMAIN synth.records[k].message :
           ByteLength(synth.records[k].message[l]) < 100

\* C26: the body of the squash message, between the title and the footer,
\* is the full messages (every line, not only the subject) of the commits of
\* the range, oldest first, joined with the separator and trimmed.
C26_SquashBody ==
  pc = "commit" /\ ShortLines =>
     LET upToFooter == Concat(<<TitleLine, NL(2), FullBody, NL(2), FooterLine>>)
     IN /\ Len(synth.message) >= Len(upToFooter)
        /\ SubSeq(synth.message, 1, Len(upToFooter)) = upToFooter

\* The longest prefix of whole characters of a text within k bytes.
RECURSIVE LongestPrefix(_, _)
LongestPrefix(t, k) ==
  IF t = <<>> \/ k <= 0 THEN <<>>
  ELSE LET p == Head(t)
       IN IF p.w * p.n <= k
          THEN Cat(<<p>>, LongestPrefix(Tail(t), k - p.w * p.n))
          ELSE IF k \div p.w > 0 THEN <<Piece(p.s, p.w, k \div p.w)>> ELSE <<>>

\* The Co-authored-by lines of the commits of the range, one per line.
CoAuthorBlock ==
  Join([m \in DOMAIN Credited |->
          Cat(Lit("Co-authored-by: "), AuthorOf(Credited[m]))], NL(1))

\* The squash message with the given body; without any co-author the footer
\* is the last line, followed by the given closing newlines.
Assembled(body, closing) ==
  Concat(<<TitleLine, NL(2), body, NL(2), FooterLine,
           IF Credited = <<>> THEN closing ELSE Cat(NL(2), CoAuthorBlock)>>)

\* The squash message whose body is the longest prefix of the full body for
\* which the whole message fits in the limit.
Truncated(closing) ==
  Assembled(LongestPrefix(FullBody,
                          GIT_MAX_COMMIT_MESSAGE_LENGTH
                            - ByteLength(Assembled(<<>>, closing))),
            closing)

OneLineMessages ==
  \A k \in DOMAIN synth.records : Len(synth.records[k].message) <= 1

\* C27: when the assembled squash message exceeds 65536 bytes, the final
\* message has the title, the footer and the co-author lines of the
\* untruncated message, and its body is the longest prefix of the
\* untruncated body for which the whole message fits in 65536 bytes.
C27_TruncationOnlyBody ==
  (/\ pc = "commit"
   /\ OneLineMessages
   /\ ByteLength(Assembled(FullBody, <<>>)) > GIT_MAX_COMMIT_MESSAGE_LENGTH) =>
     synth.message \in {Truncated(<<>>), Truncated(NL(2))}

\* The records of the commits after commit from, up to the tip of topic i,
\* oldest first, before the step.
RecordsSince(from) ==
  LET ids == SortedSeq({c \in 1..Len(repo.commits) :
                          /\ c # from
                          /\ IsAncestor(repo, from, c)
                          /\ IsAncestor(repo, c, TopicTip)})
  IN [k \in DOMAIN ids |-> InitRecords[ids[k]]]

SquashApplied == TopicStep /\ cfg.mode = "squash" /\ status'[i] = "Applied"

\* C28: the commit records used for the squash message are exactly the
\* commits between the common ancestor of the topic and the configured base
\* reference (exclusive) and the topic tip (inclusive), wherever the
\* integration head is.
C28_MessageRange ==
  [][SquashApplied =>
       synth'.records
         = RecordsSince(GitMergeBase(repo, TopicTip, RevParse(repo, BASE_REF)))]_vars

\* C28 as the code has it: the commit records used for the squash message
\* are exactly the commits between the common ancestor of the topic and HEAD
\* at the time the topic is applied (exclusive) and the topic tip
\* (inclusive).
C28_MessageRangeFromHead ==
  [][SquashApplied =>
       /\ synth'.topic = resolveTopicRef(repo, cfg.topics[i])
       /\ synth'.records = RecordsSince(GitMergeBase(repo, HeadCommit(repo), TopicTip))]_vars

C28_Witness ==
  /\ cfg.prog = "apply"
  /\ cfg.mode = "squash"
  /\ pc = "topics"
  /\ i = 2
  /\ status[1] = "Applied"
  /\ cfg.topics[1] = <<"tU">>
  /\ synth.topic = <<"origin", "tU">>
  /\ synth.records = <<InitRecords[10]>>
  /\ GitMergeBase(repo, 10, RevParse(repo, BASE_REF)) = 1

\* The commits after commit from, up to the tip of topic i, oldest first,
\* before the step.
CommitsSince(from) ==
  SortedSeq({c \in 1..Len(repo.commits) :
               /\ c # from
               /\ IsAncestor(repo, from, c)
               /\ IsAncestor(repo, c, TopicTip)})

\* The tree that results from applying the change of commit c (against its
\* parent) to a tree.
WithChangeOf(c, tree) ==
  LET parent == TreeOf(repo, repo.commits[c].parents[1])
  IN [p \in Paths |-> IF TreeOf(repo, c)[p] # parent[p] THEN TreeOf(repo, c)[p]
                      ELSE tree[p]]

PickStep ==
  TopicStep /\ cfg.mode = "pick" /\ ~IsAncestor(repo, TopicTip, HeadCommit(repo))

\* C29: under strategy pick, for a topic that is not an ancestor of HEAD,
\* the commits between merge-base(topic, base reference) (exclusive) and the
\* topic tip are applied to head one by one, oldest first, each adding one
\* commit on top of the previous one, and the topic is Applied when all of
\* them were; when the range is empty the topic ends Applied with zero
\* mutations; when no common ancestor exists the run aborts before any
\* commit is picked.
C29_CherryPick ==
  [][PickStep =>
       LET base == GitMergeBase(repo, TopicTip, RevParse(repo, BASE_REF))
           range == CommitsSince(base)
           old == Len(repo.commits)
           n == Len(repo'.commits) - old
       IN IF base = NoCommit
          THEN /\ RepoSame(repo', repo)
               /\ ops' = ops
               /\ pc' = "idle"
               /\ exitCode' = 1
               /\ failure' = "CommonAncestorUnavailable"
          ELSE IF range = <<>>
          THEN /\ RepoSame(repo', repo)
               /\ ops' = ops
               /\ status'[i] = "Applied"
               /\ i' = i + 1
               /\ pc' = "topics"
          ELSE /\ n \in 0..Len(range)
               /\ SubSeq(repo'.commits, 1, old) = repo.commits
               /\ HeadCommit(repo') = IF n = 0 THEN HeadCommit(repo) ELSE old + n
               /\ \A k \in 1..n :
                    LET prev == IF k = 1 THEN HeadCommit(repo) ELSE old + k - 1
                    IN repo'.commits[old + k]
                         = Commit(<<prev>>, WithChangeOf(range[k], TreeOf(repo', prev)))
               /\ (status'[i] = "Applied") = (n = Len(range))
               /\ n < Len(range) => exitCode' = 1]_vars

\* Both commits of tA were picked, first a then b, onto develop-working.
C29_Witness ==
  /\ cfg.prog = "apply"
  /\ cfg.mode = "pick"
  /\ run = 1
  /\ cfg.topics = << <<"tA">> >>
  /\ i = 2
  /\ status = <<"Applied">>
  /\ HeadCommit(before) = 2
  /\ Len(repo.commits) = Len(InitCommits) + 2
  /\ repo.commits[Len(InitCommits) + 1] = Commit(<<2>>, Tree(1, 0, 1))
  /\ repo.commits[Len(InitCommits) + 2] = Commit(<<Len(InitCommits) + 1>>, Tree(1, 1, 1))

\* One iteration of the topic loop of a bundle, for a topic that resolves.
BundleTopicStep ==
  /\ cfg.prog = "bundle"
  /\ pc = "btopics"
  /\ i <= Len(bs.bundles[bs.bi].topics)
  /\ before' = repo
  /\ resolveRef(repo, bs.bundles[bs.bi].topics[i]) # <<>>

BundleTopicTip == RevParse(repo, resolveRef(repo, bs.bundles[bs.bi].topics[i]))

\* Commit t has a common ancestor with HEAD and no path was changed on both
\* sides to different contents.
MergesCleanly(t) ==
  LET h == HeadCommit(repo)
      b == GitMergeBase(repo, h, t)
  IN /\ b # NoCommit
     /\ \A p \in Paths : \/ TreeOf(repo, h)[p] = TreeOf(repo, b)[p]
                         \/ TreeOf(repo, t)[p] = TreeOf(repo, b)[p]
                         \/ TreeOf(repo, h)[p] = TreeOf(repo, t)[p]

\* What a merge step does with the topic at commit t.
MergedOnce(t) ==
  LET h == HeadCommit(repo)
      n == Len(repo.commits) + 1
  IN IF IsAncestor(repo, t, h)
     THEN /\ RepoSame(repo', repo)
          /\ HeadCommit(repo') = h
     ELSE MergesCleanly(t) =>
            /\ Len(repo'.commits) = n
            /\ SubSeq(repo'.commits, 1, n - 1) = repo.commits
            /\ HeadCommit(repo') = n
            /\ repo'.head = repo.head
            /\ repo'.commits[n].parents = <<h, t>>
            /\ repo'.op = "none"

\* C30: under strategy merge and in bundle-topics, a topic that is not an
\* ancestor of HEAD and merges without conflict advances the head by exactly
\* one merge commit with two parents, first the previous head and second the
\* topic tip, also when a fast-forward would have been possible; a topic
\* that is an ancestor of HEAD leaves head, index and working tree unchanged.
C30_MergeApplication ==
  [][/\ (TopicStep /\ cfg.mode = "merge") => MergedOnce(TopicTip)
     /\ BundleTopicStep => MergedOnce(BundleTopicTip)]_vars

\* bundle/x, created at develop-working, has merged tD, which descends from
\* develop-working: a merge commit, not a fast-forward.
C30_Witness ==
  /\ cfg.prog = "bundle"
  /\ pc = "btopics"
  /\ bs.bundles[bs.bi].name = bx
  /\ bs.bundles[bs.bi].topics[1] = <<"tD">>
  /\ i = 2
  /\ status[1] = "Applied"
  /\ IsAncestor(before, HeadCommit(before), 9)
  /\ HeadCommit(repo) = Len(before.commits) + 1
  /\ repo.commits[HeadCommit(repo)].parents = <<HeadCommit(before), 9>>

\* The merge of topic i into the bundle stopped and the resolver concluded it.
ResolverResolved == BundleMergeFails /\ status'[i] = "Applied"

\* C31: after the resolver has resolved a merge, every path that was
\* unmerged and allow-listed has in the new merge commit exactly the content
\* (or absence) it had on the bundle branch before the merge, and on every
\* other path the changes of the merged topic are kept.
C31_OursWins ==
  [][ResolverResolved =>
       LET pre == AfterFailedMerge
           h == HeadCommit(repo)
           t == BundleTopicTip
           b == GitMergeBase(repo, h, t)
           new == repo'.commits[HeadCommit(repo')]
       IN /\ HeadCommit(repo') = Len(repo.commits) + 1
          /\ new.parents = <<h, t>>
          /\ \A p \in pre.unmerged :
               shouldKeepOursOnMergeConflict(PathName(p)) => new.tree[p] = TreeOf(repo, h)[p]
          /\ \A p \in Paths \ pre.unmerged :
               new.tree[p] = IF TreeOf(repo, t)[p] # TreeOf(repo, b)[p]
                             THEN TreeOf(repo, t)[p]
                             ELSE TreeOf(repo, h)[p]]_vars

\* bundle/x at develop-working merged tC: the tool directory conflicted and
\* kept the bundle's content, tC's change of a was taken.
C31_Witness ==
  /\ cfg.prog = "bundle"
  /\ pc = "btopics"
  /\ bs.bundles[bs.bi].name = bx
  /\ bs.bundles[bs.bi].topics[1] = <<"tC">>
  /\ i = 2
  /\ status[1] = "Applied"
  /\ "commit" \in ops
  /\ TreeOf(before, HeadCommit(before)) = Tree(0, 0, 1)
  /\ repo.commits[HeadCommit(repo)] = Commit(<<HeadCommit(before), 6>>, Tree(2, 0, 1))

\* C32: when no unmerged path is allow-listed, or no merge is in progress,
\* or no path is unmerged, the resolver performs no action: index, working
\* tree, head and the state of the merge in progress are as the failed merge
\* left them, and it reports unresolved with every unmerged path.
C32_ResolverFrame ==
  [][BundleMergeFails =>
       LET pre == AfterFailedMerge
       IN (\/ pre.op # "merge"
           \/ pre.unmerged = {}
           \/ \A p \in pre.unmerged : ~shouldKeepOursOnMergeConflict(PathName(p))) =>
            /\ RepoSame(repo', pre)
            /\ repo'.opHead = pre.opHead
            /\ status'[i] = "Conflict"
            /\ failure' = "ApplyConflict"
            /\ bs'.remaining = pre.unmerged]_vars

\* bundle/y merged tA, then tB conflicted on b, which is not allow-listed.
C32_Witness ==
  /\ cfg.prog = "bundle"
  /\ pc = "idle"
  /\ failure = "ApplyConflict"
  /\ bs.bundles[bs.bi].name = by
  /\ bs.bundles[bs.bi].topics = << <<"tA">>, <<"tB">> >>
  /\ i = 2
  /\ repo.op = "merge"
  /\ repo.opHead = 5
  /\ repo.unmerged = {pB}
  /\ bs.remaining = {pB}
  /\ repo.commits = before.commits

\* The commits of topic i that applyPick lists, before the step.
PickRange ==
  CommitsSince(GitMergeBase(repo, TopicTip, RevParse(repo, BASE_REF)))

\* HEAD's history holds a commit made by this program that carries the
\* change of commit c.
AlreadyApplied(c) ==
  \E x \in Ancestors(repo, HeadCommit(repo)) :
     /\ x > Len(InitCommits)
     /\ Len(repo.commits[x].parents) = 1
     /\ repo.commits[x].tree # TreeOf(repo, repo.commits[x].parents[1])
     /\ repo.commits[x].tree
          = WithChangeOf(c, TreeOf(repo, repo.commits[x].parents[1]))

\* The step of a re-run, in mode pick, at the topic the run before stopped
\* in after its first commit was applied; the topic ref has not moved.
PickRerunStep ==
  /\ PickStep
  /\ run >= 2
  /\ entry.prevExit = 1
  /\ entry.prevFailure = "ApplyConflict"
  /\ i = entry.prevI
  /\ PickRange # <<>>
  /\ AlreadyApplied(PickRange[1])

\* C33: in mode pick, when a run failed part way through a topic's range
\* and is run again without the topic ref being advanced, the topic is not
\* Skipped and the first commit of the range, already applied, is
\* cherry-picked again: the pick either adds a commit or stops.
C33_PickRerun ==
  [][PickRerunStep =>
       LET c == PickRange[1]
           h == HeadCommit(repo)
           n == Len(repo.commits) + 1
       IN /\ status'[i] # "Skipped"
          /\ "cherry-pick" \in ops'
          /\ \/ /\ Len(repo'.commits) >= n
                /\ repo'.commits[n] = Commit(<<h>>, WithChangeOf(c, TreeOf(repo, h)))
             \/ /\ repo'.commits = repo.commits
                /\ repo'.op = "pick"
                /\ repo'.opHead = c
                /\ status'[i] = "Conflict"
                /\ exitCode' = 1]_vars

\* tA picked onto a working branch that changed b: the first commit was
\* applied, the second conflicted and was completed by hand; the re-run
\* picks the first commit again and stops on it.
C33_Witness ==
  /\ cfg.prog = "apply"
  /\ cfg.mode = "pick"
  /\ cfg.topics = << <<"tA">> >>
  /\ run = 2
  /\ entry.prevExit = 1
  /\ entry.prevI = 1
  /\ entry.resumed
  /\ pc = "idle"
  /\ exitCode = 1
  /\ status = <<"Conflict">>
  /\ repo.op = "pick"
  /\ repo.opHead = 3
  /\ \E x \in Ancestors(repo, HeadCommit(repo)) :
        x > Len(InitCommits) /\ repo.commits[x] = Commit(<<5>>, Tree(1, 2, 0))

\* C34: a path is matched if and only if it is .tiramiss or
\* .github/workflows or lies below one of them; a path whose name only
\* begins like one of them (.tiramiss-x, .github/workflowsX), a sibling
\* (.github/other) and every other path is unmatched.
C34_AllowList ==
  probe.matched # "unknown" =>
     ((probe.matched = "yes") <=>
        \/ probe.segments[1] = ".tiramiss"
        \/ /\ Len(probe.segments) >= 2
           /\ probe.segments[1] = ".github"
           /\ probe.segments[2] = "workflows")

C34_Witness ==
  \/ probe = [segments |-> <<".github", "workflowsX", "x">>,
              path |-> ".github/workflowsX/x", matched |-> "no"]
  \/ probe = [segments |-> <<".github", "workflows", "x">>,
              path |-> ".github/workflows/x", matched |-> "yes"]

\* The commit of the base upstream tag and the head of the base reference
\* when the run started.
TagAtEntry == before.refs[BASE_UPSTREAM_TAG_REF(cfg.baseUpstreamTag)]
TagOnBase ==
  /\ TagAtEntry # NoCommit
  /\ IsAncestor(before, TagAtEntry, RevParse(before, BASE_REF))

\* C35: rebase-working with a base upstream tag resets the working branch
\* to the tag's commit only if that commit is an ancestor of the head of the
\* base reference; when the tag is missing or not in the base reference's
\* history the run ends non-zero and the working branch is neither switched
\* to, created nor reset.
C35_TagOnBase ==
  (cfg.prog = "rebase" /\ run >= 1 /\ cfg.baseUpstreamTag # <<>>) =>
     /\ ops \cap {"switch", "reset", "create"} # {} => TagOnBase
     /\ pc = "vendor" =>
          /\ repo.head.branch = WORKING_BRANCH
          /\ repo.refs[Heads(WORKING_BRANCH)] = TagAtEntry
          /\ repo.index = TreeOf(repo, TagAtEntry)
     /\ (pc = "idle" /\ ~TagOnBase) =>
          /\ exitCode = 1
          /\ RepoSame(repo, before)
          /\ ops \cap {"switch", "reset", "create", "commit", "push"} = {}

\* The base reference has moved on to commit 3; the tag names the older
\* commit 1, and develop-working was reset to it, not to the head.
C35_Witness ==
  /\ cfg.prog = "rebase"
  /\ cfg.baseUpstreamTag = <<"t1">>
  /\ run = 1
  /\ pc = "vendor"
  /\ RevParse(before, BASE_REF) = 3
  /\ before.refs[Heads(WORKING_BRANCH)] = 2
  /\ repo.refs[Heads(WORKING_BRANCH)] = 1
  /\ repo.head.branch = WORKING_BRANCH

\* The failed merge of topic i left both allow-listed and other paths unmerged.
MixedConflict ==
  /\ BundleMergeFails
  /\ AfterFailedMerge.op = "merge"
  /\ \E p \in AfterFailedMerge.unmerged : shouldKeepOursOnMergeConflict(PathName(p))
  /\ \E p \in AfterFailedMerge.unmerged : ~shouldKeepOursOnMergeConflict(PathName(p))

\* C36: on a mixed conflict the resolver stages the bundle branch's version of
\* the allow-listed paths and then reports unresolved: the remaining set is
\* exactly the unmerged paths that are not allow-listed, no commit is made,
\* the merge stays in progress, and the index is no longer as the failed
\* merge left it.
C36_PartialResolution ==
  [][MixedConflict =>
       LET pre == AfterFailedMerge
           others == {p \in pre.unmerged : ~shouldKeepOursOnMergeConflict(PathName(p))}
       IN /\ \A p \in pre.unmerged \ others :
               /\ repo'.index[p] = TreeOf(repo, HeadCommit(repo))[p]
               /\ p \notin repo'.unmerged
          /\ status'[i] = "Conflict"
          /\ failure' = "ApplyConflict"
          /\ bs'.remaining = others
          /\ repo'.unmerged = others
          /\ repo'.commits = repo.commits
          /\ HeadCommit(repo') = HeadCommit(repo)
          /\ repo'.op = "merge"
          /\ repo'.unmerged # pre.unmerged]_vars

\* The step that starts bundle bs.bi.
BundleStarts ==
  /\ cfg.prog = "bundle"
  /\ pc = "bundle"
  /\ pc' = "btopics"

\* C37: the base reference is resolved once, after the fetch and before the
\* first bundle; the resolved commit stays the same for the rest of the run
\* and every bundle branch is recreated at it, wherever the base reference
\* points by then.
C37_OneBaseCommit ==
  [][/\ (cfg.prog = "bundle" /\ pc = "fetch" /\ pc' = "bundle") =>
          /\ bs'.baseCommit = RevParse(repo, cfg.baseRef)
          /\ bs'.bi = 1
     /\ (cfg.prog = "bundle" /\ pc \in {"bundle", "btopics"}) =>
          bs'.baseCommit = bs.baseCommit
     /\ BundleStarts =>
          /\ repo'.head.branch = bs.bundles[bs.bi].name
          /\ repo'.refs[Heads(bs.bundles[bs.bi].name)] = bs.baseCommit
          /\ repo'.index = TreeOf(repo, bs.baseCommit)]_vars

\* The second bundle starts at the commit HEAD named after the fetch, while
\* HEAD, on the first bundle's branch, had moved to a merge commit.
C37_Witness ==
  /\ cfg.prog = "bundle"
  /\ cfg.baseRef = <<"HEAD">>
  /\ pc = "btopics"
  /\ bs.bi = 2
  /\ i = 1
  /\ bs.baseCommit = 2
  /\ HeadCommit(repo) = 2
  /\ repo.head.branch = bs.bundles[2].name
  /\ repo.refs[Heads(bs.bundles[1].name)] > Len(InitCommits)

\* A step of bundle-topics that pushes.
BundlePushes == cfg.prog = "bundle" /\ Len(pushes') > Len(pushes)

\* The step at which a run of bundle-topics fails within bundle bs.bi.
BundleFails ==
  /\ cfg.prog = "bundle"
  /\ pc \in {"bundle", "btopics"}
  /\ pc' = "idle"
  /\ exitCode' = 1
  /\ bs.bi \in DOMAIN bs.bundles

\* C38: with push enabled a bundle branch is pushed only after every topic of
\* the bundle was merged or skipped and before the next bundle is started;
\* when bundle j fails, bundles 1..j-1 have been pushed, their remote
\* branches stay as pushed, and bundles j.. are not pushed.
C38_PerBundlePush ==
  [][/\ BundlePushes =>
          LET name == bs.bundles[bs.bi].name
          IN /\ cfg.PUSH
             /\ pc = "btopics"
             /\ Len(status) = Len(bs.bundles[bs.bi].topics)
             /\ \A k \in DOMAIN status : status[k] \in {"Applied", "Skipped"}
             /\ Len(pushes) = bs.bi - 1
             /\ Len(pushes') = bs.bi
             /\ pushes'[bs.bi][1] = name
             /\ repo.head.branch = name
             /\ repo'.refs[Remotes(OriginOf(name))] = HeadCommit(repo)
     /\ (BundleStarts /\ cfg.PUSH) =>
          /\ Len(pushes) = bs.bi - 1
          /\ \A k \in 1..(bs.bi - 1) : pushes[k][1] = bs.bundles[k].name
     /\ (cfg.prog = "bundle" /\ ~BundlePushes) =>
          \A n \in BundleNames :
            repo'.refs[Remotes(OriginOf(n))] = repo.refs[Remotes(OriginOf(n))]
     /\ (BundleFails /\ cfg.PUSH) =>
          /\ Len(pushes') = bs.bi - 1
          /\ \A k \in 1..(bs.bi - 1) :
               /\ pushes'[k][1] = bs.bundles[k].name
               /\ ShowRef(repo', Remotes(OriginOf(bs.bundles[k].name)))
          /\ bs'.bi = bs.bi]_vars

\* bundle/x (tC) was built and pushed; bundle/y failed on tB after tA: the
\* remote holds the new bundle/x and the bundle/y of before the run.
C38_Witness ==
  /\ cfg.prog = "bundle"
  /\ cfg.PUSH
  /\ pc = "idle"
  /\ exitCode = 1
  /\ bs.bi = 2
  /\ bs.bundles[1].name = bx
  /\ bs.bundles[2].name = by
  /\ pushes = << <<bx, "-u">> >>
  /\ repo.refs[Remotes(OriginOf(bx))] = repo.refs[Heads(bx)]
  /\ repo.refs[Heads(bx)] > Len(InitCommits)
  /\ repo.refs[Remotes(OriginOf(by))] = 5
  /\ repo.refs[Heads(by)] # 5

\* C39: apply-topics reads from the topics.txt that issue-to-topics wrote
\* exactly the topics written, in the same order, none dropped as a comment
\* and none split.
C39_TopicsRoundTrip ==
  (cfg.prog = "issue" /\ issue.readBack) =>
     issue.readItems = [k \in DOMAIN issue.topics |-> PathName(issue.topics[k])]

====
